---- MODULE Spec2Model ----
\* Model of the binding/dispatch core of the Resolume MIDI mapper:
\*   libraries/deck_model.py    DeckState, GroupInfo, LayerInfo, DeckManager
\*   libraries/callbacks.py     CallbackRegistry (the action handlers)
\*   libraries/input_mapper.py  InputMapper.handle_event
\*   run.py                     App._pump_events
\*
\* Numbers.  The program computes with Python floats.  Every float v is
\* represented by the integer v * Unit, so 1.0 is Unit, a MIDI value r is
\* r * Unit and r / 127.0 is exact for every integer r.
EXTENDS Integers, Sequences, FiniteSets, TLC

Unit == 127 * 10000

Abs(x) == IF x < 0 THEN 0 - x ELSE x

Min2(a, b) == IF b < a THEN b ELSE a

Max2(a, b) == IF b > a THEN b ELSE a

\* max(0.0, min(1.0, v))
Clamp01(v) == Max2(0, Min2(Unit, v))

\* abs(a - b) > 1e-6, with 1e-6 = (Unit / 10000) / 100 units
Differs(a, b) == Abs(a - b) * 100 > Unit \div 10000

\* abs(a - b) < 1e-4, with 1e-4 = Unit / 10000 units
Near(a, b) == Abs(a - b) < Unit \div 10000

----------------------------------------------------------------------------
\* Bounds of the model.

\* the transport may raise on the k-th send attempt of one operation, k <= MaxFailAt
MaxFailAt == 1

\* random column draws are taken among the first MaxPick + 1 candidates
MaxPick == 1

\* events waiting in the event queue at one time
MaxQueue == 2

\* handler calls of one run of the registry
MaxOps == 2

\* events the devices push in one run
MaxEvents == 3

----------------------------------------------------------------------------
\* Configuration and topology the program is started with.

\* cfg["group_to_deck_mapping"], in dict order
group_to_deck == << [group |-> "Stage", deck |-> "stage"],
                    [group |-> "Crowd", deck |-> "crowd"],
                    [group |-> "Lost",  deck |-> "crowd"] >>

DeckNames == { group_to_deck[i].deck : i \in DOMAIN group_to_deck }

\* a deck name no group maps to
GhostDeck == "ghost"

DeckArgs == DeckNames \cup {GhostDeck}

\* LayerInfo.stop_clip = None
NoStopClip == 0

LayerInfo(i, t, c, s) == [index |-> i, types |-> t, clips |-> c, stop_clip |-> s]

\* DeckState(name): the dataclass defaults
DeckState(name) ==
    [name |-> name, playing |-> FALSE, effects |-> FALSE, colors |-> FALSE,
     transform |-> FALSE, fill |-> 0, opacity |-> Unit, last_changed |-> 0]

\* the composition loaded once at startup: groups by index, layers in dict order
InitGroupsByIndex ==
    (1 :> [index |-> 1, name |-> "Stage",
           layers |-> << LayerInfo(1, {"fills"}, <<2, 3>>, 1),
                         LayerInfo(2, {"fills"}, <<>>, NoStopClip),
                         LayerInfo(3, {"effects"}, <<2>>, 1),
                         LayerInfo(4, {"colors", "transforms"}, <<3>>, NoStopClip) >>])
    @@
    (2 :> [index |-> 2, name |-> "Crowd",
           layers |-> << LayerInfo(5, {"fills"}, <<4>>, 1),
                         LayerInfo(6, {"effects"}, <<>>, 1) >>])

InitGroupsByName == ("Stage" :> 1) @@ ("Crowd" :> 2)

----------------------------------------------------------------------------
VARIABLES
    decks,            \* DeckManager.decks: deck name -> DeckState
    deck_order,       \* iteration order of DeckManager.decks (built from a set)
    groups_by_index,  \* DeckManager.groups_by_index: index -> GroupInfo
    groups_by_name,   \* DeckManager.groups_by_name: name -> index of the GroupInfo
    last_values,      \* InputMapper._last_values: (device, control) -> raw value
    event_queue,      \* App.event_queue
    pump,             \* the _pump_events task: "running" or "dead"
    running,          \* the handler on the stack of the event loop and its position
    ops,              \* operations started so far
    op,               \* the last operation: what was called and what it did
    match_call,       \* a call of InputMapper._match_control: arguments and result
    scale_call,       \* a call of InputMapper._scale_to_01: arguments and result
    cfg,              \* the configuration handed to expand_templates
    expanded,         \* the lists expand_templates returned for cfg, one per call
    deck_to_channel,  \* StateReflector.deck_to_channel
    last_apc_sig,     \* StateReflector._last_apc_sig
    leds,             \* the APC indicators: (channel, note) -> the velocity it took last
    led_op,           \* the last reflector operation: what it read and wrote
    lost              \* an indicator write was refused and no DeckState changed since

template_vars == <<cfg, expanded>>

reflector_vars == <<deck_to_channel, last_apc_sig, leds, led_op>>

vars == <<decks, deck_order, groups_by_index, groups_by_name, last_values, event_queue, pump, running,
          ops, op,
          match_call, scale_call, cfg, expanded, deck_to_channel, last_apc_sig, leds, led_op, lost>>

----------------------------------------------------------------------------
\* The transport: osc.client.send_message(path, value).
\* A message is a record; the path is kept in its parts:
\*   connect          /composition/layers/{a}/clips/{b}/connect
\*   connectnextclip  /composition/layers/{a}/connectnextclip
\*   master           /composition/groups/{a}/master
\*   deck             /deck/{name}/{field}
\*   path             the literal path in name

Msg(k, a, b, name, field, val) ==
    [a |-> a, b |-> b, name |-> name, field |-> field, val |-> val, kind |-> k]

Connect(layer, column) == Msg("connect", layer, column, "", "", 1)

ConnectNext(layer) == Msg("connectnextclip", layer, 0, "", "", 1)

Master(group, v) == Msg("master", group, 0, "", "", v)

DeckMsg(deck, field, v) == Msg("deck", 0, 0, deck, field, v)

PathMsg(path, v) == Msg("path", 0, 0, path, "", v)

\* The running operation.  decks: the deck states as written so far; sent: the
\* messages the transport accepted, in order; n: send attempts so far; exc: the
\* exception propagating out of the code executed so far ("none", "send" for
\* one raised by send_message, "type" for a TypeError of a call); fail: which
\* attempts the transport refuses; rnd: the draws of the random module;
\* bad: a draw was asked for that rnd does not hold.
Start(d, fail, rnd) ==
    [decks |-> d, fail |-> fail, rnd |-> rnd, sent |-> <<>>, n |-> 0,
     exc |-> "none", bad |-> FALSE]

NoFail == [at |-> 0, down |-> FALSE]

FailModes == { [at |-> k, down |-> FALSE] : k \in 0..MaxFailAt }
             \cup { [at |-> 0, down |-> TRUE] }

Refused(m, n) == m.fail.down \/ m.fail.at = n

\* send_message inside try/except Exception: a refusal is logged, execution goes on
SendGuarded(m, msg) ==
    IF m.exc # "none" THEN m
    ELSE IF Refused(m, m.n + 1) THEN [m EXCEPT !.n = @ + 1]
    ELSE [m EXCEPT !.n = @ + 1, !.sent = Append(@, msg)]

\* send_message outside any try: a refusal propagates
SendBare(m, msg) ==
    IF m.exc # "none" THEN m
    ELSE IF Refused(m, m.n + 1) THEN [m EXCEPT !.n = @ + 1, !.exc = "send"]
    ELSE [m EXCEPT !.n = @ + 1, !.sent = Append(@, msg)]

RECURSIVE SendAllGuarded(_, _)
SendAllGuarded(m, msgs) ==
    IF msgs = <<>> THEN m
    ELSE SendAllGuarded(SendGuarded(m, Head(msgs)), Tail(msgs))

\* int(bool)
BoolInt(b) == IF b THEN 1 ELSE 0

\* random.choice(seq) and random.randint(lo, hi), drawn by rnd.pick
RandomChoice(m, seq) == seq[(m.rnd.pick % Len(seq)) + 1]

RandInt(m, lo, hi) == lo + (m.rnd.pick % (hi - lo + 1))

NoRnd == [pick |-> 0, sel |-> {}, step |-> 0]

----------------------------------------------------------------------------
\* DeckManager and the lookups of CallbackRegistry.

\* DeckManager.get_deck(name) is None
NoDeck(m, deck) == deck \notin DOMAIN m.decks

\* [g for g, d in group_to_deck.items() if d == deck_name]
RECURSIVE GroupsFrom(_, _)
GroupsFrom(pairs, deck) ==
    IF pairs = <<>> THEN <<>>
    ELSE IF Head(pairs).deck = deck
         THEN <<Head(pairs).group>> \o GroupsFrom(Tail(pairs), deck)
         ELSE GroupsFrom(Tail(pairs), deck)

groups_for_deck(deck) == GroupsFrom(group_to_deck, deck)

\* groups_by_name.get(g): the layers of the group object, <<>> if the name is unknown
LayersOfGroup(g) ==
    IF g \in DOMAIN groups_by_name THEN groups_by_index[groups_by_name[g]].layers
    ELSE <<>>

\* get_group_layers_by_type with the filter on the layer type forgotten
get_group_layers_by_type_Unfiltered(g, layer_type) == LayersOfGroup(g)

\* DeckManager.get_group_layers_by_type
get_group_layers_by_type(g, layer_type) ==
    SelectSeq(LayersOfGroup(g), LAMBDA li : layer_type \in li.types)

RECURSIVE LayersOfTypeIn(_, _)
LayersOfTypeIn(gs, layer_type) ==
    IF gs = <<>> THEN <<>>
    ELSE get_group_layers_by_type(Head(gs), layer_type)
         \o LayersOfTypeIn(Tail(gs), layer_type)

layers_of_type_for_deck(deck, layer_type) ==
    LayersOfTypeIn(groups_for_deck(deck), layer_type)

RECURSIVE AllLayersIn(_)
AllLayersIn(gs) ==
    IF gs = <<>> THEN <<>> ELSE LayersOfGroup(Head(gs)) \o AllLayersIn(Tail(gs))

\* _all_layers_for_deck returning the fills-typed layers only
all_layers_for_deck_FillsOnly(deck) == layers_of_type_for_deck(deck, "fills")

all_layers_for_deck(deck) == AllLayersIn(groups_for_deck(deck))

\* the column of a stop command: the layer's stop_clip, column 1 if it has none
StopColumn(li) == IF li.stop_clip # NoStopClip THEN li.stop_clip ELSE 1

\* the column of an activate command: random.choice(clips), or random.randint(2, 10)
FireColumn(m, li) ==
    IF li.clips # <<>> THEN RandomChoice(m, li.clips) ELSE RandInt(m, 2, 10)

StopMsg(li) == Connect(li.index, StopColumn(li))

FireMsg(m, li) == Connect(li.index, FireColumn(m, li))

----------------------------------------------------------------------------
\* CallbackRegistry: helpers.

\* _send_deck_state: five sends, none of them in a try
send_deck_state(m, deck) ==
    IF NoDeck(m, deck) THEN m
    ELSE LET d == m.decks[deck]
             m1 == SendBare(m, DeckMsg(deck, "effects", BoolInt(d.effects)))
             m2 == SendBare(m1, DeckMsg(deck, "colors", BoolInt(d.colors)))
             m3 == SendBare(m2, DeckMsg(deck, "transform", BoolInt(d.transform)))
             m4 == SendBare(m3, DeckMsg(deck, "fill", d.fill))
         IN  SendBare(m4, DeckMsg(deck, "opacity", d.opacity))

\* _fire_for_layer_type
fire_for_layer_type(m, deck, layer_type, enabled) ==
    LET layers == layers_of_type_for_deck(deck, layer_type)
        msgs == [i \in 1..Len(layers) |->
                    IF enabled THEN FireMsg(m, layers[i]) ELSE StopMsg(layers[i])]
    IN  SendAllGuarded(m, msgs)

\* Python round(q / 4) for an integer q >= 0: halves go to the even neighbour
RoundQuarters(q) ==
    LET f == q \div 4
        r == q % 4
    IN  IF r < 2 THEN f
        ELSE IF r > 2 THEN f + 1
        ELSE IF f % 2 = 0 THEN f ELSE f + 1

\* ratio_map.get(f): 1..4 for f = 0.25, 0.5, 0.75, 1.0 (as quarters), 0 for None
RatioQuarters(f) ==
    IF 4 * f = Unit THEN 1
    ELSE IF 2 * f = Unit THEN 2
    ELSE IF 4 * f = 3 * Unit THEN 3
    ELSE IF f = Unit THEN 4 ELSE 0

\* k without the minimum of one layer
SampleSize_NoMinimum(quarters, n) == RoundQuarters(quarters * n)

\* k = max(1, round(ratio * n))
SampleSize(quarters, n) == Max2(1, RoundQuarters(quarters * n))

\* random.sample(layers, k) is called: an intermediate step and k < n
Sampled(f, n) ==
    /\ n > 0
    /\ RatioQuarters(f) \in 1..3
    /\ SampleSize(RatioQuarters(f), n) < n

\* _fire_fills_for_deck; random.sample is drawn by rnd.sel, the positions chosen
fire_fills_for_deck(m, deck, fill_value) ==
    LET layers == layers_of_type_for_deck(deck, "fills")
        n == Len(layers)
        f == Clamp01(fill_value)
        k == SampleSize(RatioQuarters(f), n)
        selected == IF Sampled(f, n) THEN m.rnd.sel ELSE 1..n
        selected_ids == { layers[i].index : i \in selected \cap (1..n) }
        msgs == [i \in 1..n |->
                    IF layers[i].index \in selected_ids
                    THEN FireMsg(m, layers[i]) ELSE StopMsg(layers[i])]
    IN  IF n = 0 THEN m
        ELSE IF f = 0 THEN SendAllGuarded(m, [i \in 1..n |-> StopMsg(layers[i])])
        ELSE IF RatioQuarters(f) = 0 THEN m
        ELSE IF Sampled(f, n) /\ ~(m.rnd.sel \subseteq 1..n /\ Cardinality(m.rnd.sel) = k)
             THEN [m EXCEPT !.bad = TRUE]
        ELSE SendAllGuarded(m, msgs)

\* _connect_next_for_layers
connect_next_for_layers(m, layers) ==
    SendAllGuarded(m, [i \in 1..Len(layers) |-> ConnectNext(layers[i].index)])

----------------------------------------------------------------------------
\* CallbackRegistry: the handlers.  Each takes the running operation and
\* returns it as the handler leaves it.

SetField(m, deck, field, v) == [m EXCEPT !.decks[deck][field] = v]

\* toggle_effects reporting the flag of a deck it did not find
toggle_effects_Unchecked(m, deck) ==
    IF NoDeck(m, deck) THEN SendBare(m, DeckMsg(deck, "effects", 0))
    ELSE LET m1 == SetField(m, deck, "effects", ~m.decks[deck].effects)
             m2 == fire_for_layer_type(m1, deck, "effects", m1.decks[deck].effects)
         IN  send_deck_state(m2, deck)

toggle_effects(m, deck) ==
    IF NoDeck(m, deck) THEN m
    ELSE LET m1 == SetField(m, deck, "effects", ~m.decks[deck].effects)
             m2 == fire_for_layer_type(m1, deck, "effects", m1.decks[deck].effects)
         IN  send_deck_state(m2, deck)

\* toggle_colors flipping the effects flag, as a copy of toggle_effects would
toggle_colors_AsEffects(m, deck) == toggle_effects(m, deck)

toggle_colors(m, deck) ==
    IF NoDeck(m, deck) THEN m
    ELSE LET m1 == SetField(m, deck, "colors", ~m.decks[deck].colors)
             m2 == fire_for_layer_type(m1, deck, "colors", m1.decks[deck].colors)
         IN  send_deck_state(m2, deck)

toggle_transform(m, deck) ==
    IF NoDeck(m, deck) THEN m
    ELSE LET m1 == SetField(m, deck, "transform", ~m.decks[deck].transform)
             m2 == fire_for_layer_type(m1, deck, "transforms", m1.decks[deck].transform)
         IN  send_deck_state(m2, deck)

\* Normalize127 with the division by 127 forgotten
Normalize127_NoScale(value) == Clamp01(value)

\* Normalize127 with the final clamp forgotten
Normalize127_NoClamp(value) == IF value > Unit THEN value \div 127 ELSE value

\* if v > 1.0: v = v / 127.0, then clamped to [0, 1]
Normalize127(value) ==
    Clamp01(IF value > Unit THEN value \div 127 ELSE value)

\* DISCRETE = (0.0, 0.25, 0.5, 0.75, 1.0)
DISCRETE == { (q * Unit) \div 4 : q \in 0..4 }

set_fill(m, deck, value) ==
    IF NoDeck(m, deck) THEN m
    ELSE LET d == m.decks[deck]
             v == Normalize127(value)
             changed == Differs(d.fill, v) \/ ~d.playing
             m1 == IF Differs(d.fill, v) THEN SetField(m, deck, "fill", v) ELSE m
             m2 == IF ~d.playing THEN SetField(m1, deck, "playing", TRUE) ELSE m1
             is_step == \E s \in DISCRETE : Near(v, s)
             m3 == IF is_step THEN fire_fills_for_deck(m2, deck, v) ELSE m2
         IN  IF changed THEN send_deck_state(m3, deck) ELSE m3

\* int(gi.index) of the deck's groups that groups_by_name knows
RECURSIVE GroupIndexes(_)
GroupIndexes(gs) ==
    IF gs = <<>> THEN <<>>
    ELSE IF Head(gs) \in DOMAIN groups_by_name
         THEN <<groups_by_index[groups_by_name[Head(gs)]].index>> \o GroupIndexes(Tail(gs))
         ELSE GroupIndexes(Tail(gs))

set_opacity(m, deck, value) ==
    IF NoDeck(m, deck) THEN m
    ELSE LET v == Normalize127(value)
             idxs == GroupIndexes(groups_for_deck(deck))
             m1 == SendAllGuarded(m, [i \in 1..Len(idxs) |-> Master(idxs[i], v)])
             m2 == IF m1.decks[deck].opacity # v
                   THEN SetField(m1, deck, "opacity", v) ELSE m1
         IN  send_deck_state(m2, deck)

\* stop_deck leaving the fill of the deck as it was
stop_deck_KeepsFill(m, deck) ==
    IF NoDeck(m, deck) THEN m
    ELSE LET layers == all_layers_for_deck(deck)
             m1 == SendAllGuarded(m, [i \in 1..Len(layers) |-> StopMsg(layers[i])])
         IN  send_deck_state(SetField(m1, deck, "playing", FALSE), deck)

stop_deck(m, deck) ==
    IF NoDeck(m, deck) THEN m
    ELSE LET layers == all_layers_for_deck(deck)
             m1 == SendAllGuarded(m, [i \in 1..Len(layers) |-> StopMsg(layers[i])])
             m2 == SetField(SetField(m1, deck, "playing", FALSE), deck, "fill", 0)
         IN  send_deck_state(m2, deck)

\* random.choice([0.0, 0.25, 0.5, 0.75, 1.0]), drawn by rnd.step in 0..4
RandomStep(m) == (m.rnd.step * Unit) \div 4

random_fills(m, deck) ==
    IF NoDeck(m, deck) THEN m
    ELSE LET v == RandomStep(m)
             m1 == SetField(SetField(m, deck, "fill", v), deck, "playing", TRUE)
             m2 == fire_fills_for_deck(m1, deck, v)
         IN  send_deck_state(m2, deck)

\* next_clip advancing the layers of every type, whatever the flags
next_clip_AnyFlag(m, deck) ==
    IF NoDeck(m, deck) THEN m
    ELSE LET m1 == connect_next_for_layers(m, layers_of_type_for_deck(deck, "fills"))
             m2 == connect_next_for_layers(m1, layers_of_type_for_deck(deck, "colors"))
             m3 == connect_next_for_layers(m2, layers_of_type_for_deck(deck, "transforms"))
         IN  connect_next_for_layers(m3, layers_of_type_for_deck(deck, "effects"))

next_clip(m, deck) ==
    IF NoDeck(m, deck) THEN m
    ELSE LET d == m.decks[deck]
             m1 == connect_next_for_layers(m, layers_of_type_for_deck(deck, "fills"))
             m2 == IF d.colors
                   THEN connect_next_for_layers(m1, layers_of_type_for_deck(deck, "colors"))
                   ELSE m1
             m3 == IF d.transform
                   THEN connect_next_for_layers(m2, layers_of_type_for_deck(deck, "transforms"))
                   ELSE m2
         IN  IF d.effects
             THEN connect_next_for_layers(m3, layers_of_type_for_deck(deck, "effects"))
             ELSE m3

next_or_random(m, deck) ==
    IF NoDeck(m, deck) THEN m
    ELSE IF m.decks[deck].playing THEN next_clip(m, deck) ELSE random_fills(m, deck)

\* the loop body of stop_all_decks over the decks still to visit
RECURSIVE StopEach(_, _)
StopEach(m, names) ==
    IF names = <<>> \/ m.exc # "none" THEN m
    ELSE LET m1 == SetField(SetField(m, Head(names), "playing", FALSE),
                            Head(names), "fill", 0)
         IN  StopEach(send_deck_state(m1, Head(names)), Tail(names))

stop_all_decks(m) ==
    SendBare(StopEach(m, deck_order), PathMsg("/czechb/control/stop_all_decks", 1))

start_autopilot(m) == SendBare(m, PathMsg("/czechb/control/autopilot/start", 1))

stop_autopilot(m) == SendBare(m, PathMsg("/czechb/control/autopilot/stop", 1))

toggle_record(m) == SendBare(m, PathMsg("/czechb/control/record/toggle", 1))

nudge_minus(m) == SendGuarded(m, PathMsg("/composition/tempocontroller/tempo/dec", 1))

nudge_plus(m) == SendGuarded(m, PathMsg("/composition/tempocontroller/tempo/inc", 1))

----------------------------------------------------------------------------
\* Calling a handler.  A call is the action name and the positional arguments
\* given: args is "none" for cb(), "deck" for cb(deck), "value" for cb(v) and
\* "deck_value" for cb(deck, v).

Call(action, args, deck, value) ==
    [deck |-> deck, value |-> value, action |-> action, args |-> args]

DeckActions == {"toggle_effects", "toggle_colors", "toggle_transform", "stop_deck",
                "random_fills", "next_clip", "next_or_random"}

DeckValueActions == {"set_fill", "set_opacity"}

\* async def: calling one returns a coroutine object and runs none of its body
CoroutineActions == {"tempo_tap", "bpm_resync", "toggle_metronome"}

GlobalActions == {"stop_all_decks", "start_autopilot", "stop_autopilot",
                  "toggle_record", "nudge_minus", "nudge_plus"}

\* the keys of CallbackRegistry.callbacks
Registered == DeckActions \cup DeckValueActions \cup CoroutineActions \cup GlobalActions

\* the positional parameters the handler's def declares
Signature(action) ==
    IF action \in DeckActions THEN "deck"
    ELSE IF action \in DeckValueActions THEN "deck_value"
    ELSE "none"

\* cb(...): a call whose arguments do not fit the def raises TypeError before
\* the body runs; a coroutine function returns its coroutine, which nobody awaits
Invoke(m, c) ==
    IF m.exc # "none" THEN m
    ELSE IF c.args # Signature(c.action) THEN [m EXCEPT !.exc = "type"]
    ELSE CASE c.action = "toggle_effects"   -> toggle_effects(m, c.deck)
           [] c.action = "toggle_colors"    -> toggle_colors(m, c.deck)
           [] c.action = "toggle_transform" -> toggle_transform(m, c.deck)
           [] c.action = "set_fill"         -> set_fill(m, c.deck, c.value)
           [] c.action = "set_opacity"      -> set_opacity(m, c.deck, c.value)
           [] c.action = "stop_deck"        -> stop_deck(m, c.deck)
           [] c.action = "random_fills"     -> random_fills(m, c.deck)
           [] c.action = "next_clip"        -> next_clip(m, c.deck)
           [] c.action = "next_or_random"   -> next_or_random(m, c.deck)
           [] c.action = "stop_all_decks"   -> stop_all_decks(m)
           [] c.action = "start_autopilot"  -> start_autopilot(m)
           [] c.action = "stop_autopilot"   -> stop_autopilot(m)
           [] c.action = "toggle_record"    -> toggle_record(m)
           [] c.action = "nudge_minus"      -> nudge_minus(m)
           [] c.action = "nudge_plus"       -> nudge_plus(m)
           [] OTHER                         -> m

----------------------------------------------------------------------------
\* InputMapper.

\* A control: a MIDI tuple (kind, num[, ch]) of len 2 or 3, or a string, kept
\* as prefix + rest ("button_" + "0") so that startswith can be decided.
TupleCtl(kind, num, len, ch) ==
    [kind |-> kind, num |-> num, len |-> len, ch |-> ch, prefix |-> "", rest |-> ""]

StrCtl(prefix, rest) ==
    [kind |-> "str", num |-> 0, len |-> 0, ch |-> 0, prefix |-> prefix, rest |-> rest]

DeviceEvent(device, control, value) ==
    [value |-> value, device |-> device, control |-> control]

\* _match_control that compares kind and number only
match_control_AnyChannel(control, pattern) ==
    IF pattern.kind = "str" THEN control = pattern
    ELSE IF control.kind = "str" THEN FALSE
    ELSE pattern.len >= 2 /\ control.len >= 2
         /\ pattern.kind = control.kind /\ pattern.num = control.num

\* _match_control(control, pattern)
match_control(control, pattern) ==
    IF pattern.kind = "str" THEN control = pattern
    ELSE IF control.kind = "str" THEN FALSE
    ELSE IF pattern.len >= 2 /\ control.len >= 2
            /\ pattern.kind = control.kind /\ pattern.num = control.num
         THEN (IF pattern.len >= 3 THEN control.len >= 3 /\ pattern.ch = control.ch
               ELSE TRUE)
    ELSE FALSE

\* _is_buttonish(control)
is_buttonish(control) ==
    IF control.kind = "str" THEN control.prefix \in {"button_", "hat_"}
    ELSE control.kind = "note"

\* one step of computing (a * Unit) / c without leaving the machine integers:
\* p stands for p.q + p.r / c, and is multiplied by f
MulDivStep(p, f, c) == [q |-> p.q * f + (p.r * f) \div c, r |-> (p.r * f) % c]

\* (a / c) as a float in units, for a >= 0 and c > 0
Ratio(a, c) ==
    MulDivStep(MulDivStep(MulDivStep([q |-> a \div c, r |-> a % c], 127, c), 100, c),
               100, c).q

\* _scale_to_01 without its last two lines
scale_to_01_NoFinalClamp(control, value, scale) ==
    LET v1 == IF control.kind = "str" /\ control.prefix = "axis_"
              THEN (value + Unit) \div 2 ELSE value
        v2 == IF control.kind = "cc" THEN v1 \div 127 ELSE v1
        lo == scale[1]
        hi == scale[2]
        v3 == Max2(lo, Min2(hi, v2))
        rng == IF hi - lo # 0 THEN hi - lo ELSE Unit
    IN  IF Len(scale) # 2 THEN v2
        ELSE IF v3 = lo THEN 0
        ELSE Ratio(v3 - lo, rng)

\* _scale_to_01(control, value, value_scale); scale is <<>> or <<lo, hi>>
scale_to_01(control, value, scale) ==
    LET v1 == IF control.kind = "str" /\ control.prefix = "axis_"
              THEN (value + Unit) \div 2 ELSE value
        v2 == IF control.kind = "cc" THEN v1 \div 127 ELSE v1
        lo == scale[1]
        hi == scale[2]
        v3 == Max2(lo, Min2(hi, v2))
        rng == IF hi - lo # 0 THEN hi - lo ELSE Unit
        v4 == IF Len(scale) # 2 THEN v2
              ELSE IF v3 = lo THEN 0
              ELSE Ratio(v3 - lo, rng)
    IN  Clamp01(v4)

\* a binding rule; deck "" stands for an absent deck key, fixed <<>> for an
\* absent fixed_value, scale <<>> for an absent value_scale
Rule(device, control, action, deck, edge, fixed, scale) ==
    [deck |-> deck, action |-> action, device |-> device, control |-> control,
     scale |-> scale, edge |-> edge, fixed |-> fixed]

\* the handler call one fired rule makes (lines 150-164)
CallOf(rule, ev) ==
    IF rule.action = "set_fill"
    THEN LET v == IF rule.fixed # <<>> THEN rule.fixed[1]
                  ELSE scale_to_01(ev.control, ev.value, rule.scale)
         IN  IF rule.deck # "" THEN Call("set_fill", "deck_value", rule.deck, v)
             ELSE Call("set_fill", "value", "", v)
    ELSE IF rule.deck # "" THEN Call(rule.action, "deck", rule.deck, 0)
         ELSE Call(rule.action, "none", "", 0)

\* the edge test of lines 133-141
Fired(rule, ev, last) ==
    LET rising == last = 0 /\ ev.value # 0
        falling == last # 0 /\ ev.value = 0
    IN  IF is_buttonish(ev.control)
        THEN \/ rule.edge = "press" /\ rising
             \/ rule.edge = "release" /\ falling
             \/ rule.edge = "both" /\ (rising \/ falling)
        ELSE TRUE

\* rule passes the filters of lines 119-144 and its handler is to be called
Selected(rule, ev, last) ==
    /\ rule.device = ev.device
    /\ match_control(ev.control, rule.control)
    /\ rule.action \in Registered
    /\ Fired(rule, ev, last)

\* the for loop of handle_event over the rules still to visit; r is
\* [m: the running operation, calls: the handler calls made so far]
RECURSIVE RunRules(_, _, _, _)
RunRules(r, rules, ev, last) ==
    IF rules = <<>> \/ r.m.exc # "none" THEN r
    ELSE IF ~Selected(Head(rules), ev, last) THEN RunRules(r, Tail(rules), ev, last)
    ELSE LET c == CallOf(Head(rules), ev)
         IN  RunRules([m |-> Invoke(r.m, c), calls |-> Append(r.calls, c)],
                      Tail(rules), ev, last)

\* _last_values.get(key, 0)
LastOf(cache, ev) ==
    IF <<ev.device, ev.control>> \in DOMAIN cache
    THEN cache[<<ev.device, ev.control>>] ELSE 0

\* the cache written only once a rule has matched the event
CacheAfter_WhenMatched(cache, ev) ==
    IF ev.device = "apc40"
    THEN [k \in DOMAIN cache \cup {<<ev.device, ev.control>>} |->
            IF k = <<ev.device, ev.control>> THEN ev.value ELSE cache[k]]
    ELSE cache

\* self._last_values[key] = ev.value
CacheAfter(cache, ev) ==
    [k \in DOMAIN cache \cup {<<ev.device, ev.control>>} |->
        IF k = <<ev.device, ev.control>> THEN ev.value ELSE cache[k]]

\* handle_event(ev) over the binding list rules, with last read from the cache
\* before it is overwritten
handle_event(m, rules, ev) ==
    RunRules([m |-> m, calls |-> <<>>], rules, ev, LastOf(last_values, ev))

----------------------------------------------------------------------------
\* binding_templates.py.  A configuration value, as yaml.safe_load yields it,
\* is a record tagged with its Python type:
\*   int    i is the number
\*   str    s is the text cut into pieces, a placeholder being a piece of its
\*          own: "deck:{deck}" is <<"deck:", "{deck}">>, "note" is <<"note">>
\*   list, tuple   items are the elements
\*   dict   items are the entries [k, v] in insertion order

IntV(n) == [i |-> n, t |-> "int", s |-> <<>>, items |-> <<>>]

StrV(pieces) == [i |-> 0, t |-> "str", s |-> pieces, items |-> <<>>]

\* a string without placeholder
Text(x) == StrV(<<x>>)

ListV(elems) == [i |-> 0, t |-> "list", s |-> <<>>, items |-> elems]

TupleV(elems) == [i |-> 0, t |-> "tuple", s |-> <<>>, items |-> elems]

DictV(entries) == [i |-> 0, t |-> "dict", s |-> <<>>, items |-> entries]

Entry(key, val) == [v |-> val, k |-> key]

DeckPlaceholder == StrV(<<"{deck}">>)

ChannelPlaceholder == StrV(<<"{channel}">>)

\* the human channel taken for the mido channel
human_to_mido_channel_NoShift(human_ch) == Max2(0, Min2(15, human_ch))

\* _human_to_mido_channel
human_to_mido_channel(human_ch) == Max2(0, Min2(15, human_ch - 1))

\* one (human channel, deck name) item of a channel_to_deck dict
Pair(human_ch, deck_name) == [deck |-> deck_name, ch |-> human_ch]

\* _iter_device_decks: what it yields for the channel_to_deck items c2d, which
\* are <<>> when the device has no such key or no configuration at all
RECURSIVE IterFrom(_, _)
IterFrom(c2d, j) ==
    IF j > Len(c2d) THEN <<>>
    ELSE <<Pair(human_to_mido_channel(c2d[j].ch), c2d[j].deck)>> \o IterFrom(c2d, j + 1)

iter_device_decks(c2d) == IterFrom(c2d, 1)

\* obj.replace("{deck}", deck).replace("{channel}", str(channel)) on one piece
\* (deck names hold no brace)
ReplacePiece(piece, channel, deck) ==
    IF piece = "{deck}" THEN deck
    ELSE IF piece = "{channel}" THEN ToString(channel)
    ELSE piece

RECURSIVE JoinPieces(_, _, _, _)
JoinPieces(pieces, j, channel, deck) ==
    IF j > Len(pieces) THEN ""
    ELSE ReplacePiece(pieces[j], channel, deck) \o JoinPieces(pieces, j + 1, channel, deck)

\* new[key] = val on the entries of a dict: an equal key keeps its place
DictPut(entries, key, val) ==
    IF \E j \in DOMAIN entries : entries[j].k = key
    THEN [j \in DOMAIN entries |->
            IF entries[j].k = key THEN Entry(key, val) ELSE entries[j]]
    ELSE Append(entries, Entry(key, val))

\* _render_placeholders(obj, channel, deck), channel an int and deck a str as
\* expand_templates passes them
RECURSIVE render_placeholders(_, _, _)
RECURSIVE RenderEntries(_, _, _, _, _)
render_placeholders(obj, channel, deck) ==
    CASE obj.t = "str" ->
            IF obj = DeckPlaceholder THEN Text(deck)
            ELSE IF obj = ChannelPlaceholder THEN IntV(channel)
            ELSE Text(JoinPieces(obj.s, 1, channel, deck))
      [] obj.t = "list" ->
            ListV([j \in DOMAIN obj.items |-> render_placeholders(obj.items[j], channel, deck)])
      [] obj.t = "tuple" ->
            TupleV([j \in DOMAIN obj.items |-> render_placeholders(obj.items[j], channel, deck)])
      [] obj.t = "dict" -> DictV(RenderEntries(obj.items, 1, <<>>, channel, deck))
      [] OTHER -> obj

\* the for loop of the dict branch, new being the dict built so far
RenderEntries(entries, j, new, channel, deck) ==
    IF j > Len(entries) THEN new
    ELSE RenderEntries(entries, j + 1,
                       DictPut(new, render_placeholders(entries[j].k, channel, deck),
                                    render_placeholders(entries[j].v, channel, deck)),
                       channel, deck)

\* lines 66-70: the copy of the skeleton with r["device"] = dev_key, rendered
RenderRule(rule, dev_key, pair) ==
    render_placeholders(DictV(DictPut(rule.items, Text("device"), Text(dev_key))),
                        pair.ch, pair.deck)

\* for rule in rules (line 65)
RECURSIVE ExpandRules(_, _, _, _)
ExpandRules(rules, j, dev_key, pair) ==
    IF j > Len(rules) THEN <<>>
    ELSE <<RenderRule(rules[j], dev_key, pair)>> \o ExpandRules(rules, j + 1, dev_key, pair)

\* the loops the other way round: for each rule, for each pair
RECURSIVE ExpandPairs_RulesOuter(_, _, _, _)
ExpandPairs_RulesOuter(pairs, j, rules, dev_key) ==
    IF j > Len(rules) THEN <<>>
    ELSE [p \in DOMAIN pairs |-> RenderRule(rules[j], dev_key, pairs[p])]
         \o ExpandPairs_RulesOuter(pairs, j + 1, rules, dev_key)

\* for ... in _iter_device_decks(...) (line 64), from pair j on
RECURSIVE ExpandPairs(_, _, _, _)
ExpandPairs(pairs, j, rules, dev_key) ==
    IF j > Len(pairs) THEN <<>>
    ELSE ExpandRules(rules, 1, dev_key, pairs[j]) \o ExpandPairs(pairs, j + 1, rules, dev_key)

\* one entry of the devices dict: its key and its channel_to_deck items
Device(key, c2d) == [key |-> key, channel_to_deck |-> c2d]

\* dev_key in devices
HasDevice(devices, dev_key) == \E j \in DOMAIN devices : devices[j].key = dev_key

\* devices[dev_key]
DeviceCfg(devices, dev_key) == devices[CHOOSE j \in DOMAIN devices : devices[j].key = dev_key]

\* one per_deck block; device is "" when the key is missing or empty
Block(device, rules) == [device |-> device, rules |-> rules]

\* the body of for block in per_deck (lines 60-71)
ExpandBlock(devices, block) ==
    IF block.device = "" \/ ~HasDevice(devices, block.device) THEN <<>>
    ELSE ExpandPairs(iter_device_decks(DeviceCfg(devices, block.device).channel_to_deck),
                     1, block.rules, block.device)

RECURSIVE ExpandBlocks(_, _, _)
ExpandBlocks(devices, per_deck, j) ==
    IF j > Len(per_deck) THEN <<>>
    ELSE ExpandBlock(devices, per_deck[j]) \o ExpandBlocks(devices, per_deck, j + 1)

\* the parts of cfg that expand_templates reads
Cfg(devices, per_deck, global, bindings) ==
    [devices |-> devices, per_deck |-> per_deck, global |-> global, bindings |-> bindings]

\* expand_templates(cfg): a deep copy of a value is the value
expand_templates(c) == ExpandBlocks(c.devices, c.per_deck, 1) \o c.global \o c.bindings

NoCfg == Cfg(<<>>, <<>>, <<>>, <<>>)

----------------------------------------------------------------------------
\* state_reflector.py.  The reflector is built with an apc_bus (enable_apc40);
\* without one _reflect_apc_leds returns before it reads the deck.

\* APC_VEL
APC_VEL == [off |-> 0, green |-> 1, red |-> 3, yellow |-> 5]

NEXT_CLIP_NOTE == 57

STOP_NOTE == 52

FILL_GREEN_NOTES == <<56, 55, 54, 53>>

LedNotes == {NEXT_CLIP_NOTE, STOP_NOTE} \cup { FILL_GREEN_NOTES[i] : i \in DOMAIN FILL_GREEN_NOTES }

\* build_deck_to_channel_from_cfg, from the items of devices.apc40.channel_to_deck
\* (integer keys, non-empty deck names): out[deck] = mido_ch, a later item
\* with the same deck replacing an earlier one
RECURSIVE BuildFrom(_, _, _)
BuildFrom(c2d, j, out) ==
    IF j > Len(c2d) THEN out
    ELSE BuildFrom(c2d, j + 1,
                   [d \in DOMAIN out \cup {c2d[j].deck} |->
                       IF d = c2d[j].deck THEN Max2(0, Min2(15, c2d[j].ch - 1)) ELSE out[d]])

build_deck_to_channel_from_cfg(c2d) == BuildFrom(c2d, 1, <<>>)

\* the signature string "ch..|57:..|52:..|greens:..|b57:..|b52:..", by its parts
Sig(ch, v57, v52, greens, b57, b52) ==
    [ch |-> ch, v57 |-> v57, v52 |-> v52, greens |-> greens, b57 |-> b57, b52 |-> b52]

\* _last_apc_sig.get(name) of a deck without entry
NoSig == Sig(0 - 1, 0, 0, 0, 0, 0)

\* one apc_bus.note_on(note, vel, channel=ch); ok: the sink took it
Write(ch, note, vel, ok) == [ch |-> ch, note |-> note, vel |-> vel, ok |-> ok]

\* The running reflector operation.  sigs: _last_apc_sig; leds: the value each
\* indicator took last; writes: the note_on calls so far; n: their number;
\* fail: which of them the sink refuses.
LedStart(sigs, lamps, fail) ==
    [leds |-> lamps, fail |-> fail, n |-> 0, sigs |-> sigs, writes |-> <<>>]

\* apc_bus.note_on inside try/except Exception: a refusal is logged, the
\* indicator keeps its value, execution goes on (r is evaluated once)
note_on(r, note, vel, ch) ==
    LET send(s) ==
            IF s.fail.down \/ s.fail.at = s.n + 1
            THEN [s EXCEPT !.n = @ + 1, !.writes = Append(@, Write(ch, note, vel, FALSE))]
            ELSE [s EXCEPT !.n = @ + 1, !.writes = Append(@, Write(ch, note, vel, TRUE)),
                           !.leds[<<ch, note>>] = vel]
    IN  CHOOSE out \in { send(s) : s \in {r} } : TRUE

\* Python round(n / d) for integers n >= 0, d > 0: halves go to the even neighbour
RoundRatio(n, d) ==
    LET q == n \div d
        rem == n % d
    IN  IF 2 * rem < d THEN q
        ELSE IF 2 * rem > d THEN q + 1
        ELSE IF q % 2 = 0 THEN q ELSE q + 1

\* the count without rounding: int(fill * 4.0)
greens_count_Truncated(fill) == Max2(0, Min2(4, (4 * Clamp01(fill)) \div Unit))

\* lines 123-124
greens_count(fill) == Max2(0, Min2(4, RoundRatio(4 * Clamp01(fill), Unit)))

\* lines 127-132
note57_vel(deck) == IF deck.playing THEN APC_VEL.yellow ELSE APC_VEL.red

\* note 52 blinking whether the deck plays or not
note52_vel_AlwaysBlinking(deck, blink_on) == IF blink_on THEN APC_VEL.green ELSE APC_VEL.off

\* lines 135-141, blink_on being what _blink_on(ch) returns at that time
note52_vel(deck, blink_on) ==
    IF deck.playing THEN (IF blink_on THEN APC_VEL.green ELSE APC_VEL.off) ELSE APC_VEL.off

\* line 143
SigOf(deck, ch, blink_on) ==
    Sig(ch, note57_vel(deck), note52_vel(deck, blink_on), greens_count(deck.fill), 0,
        IF deck.playing THEN BoolInt(blink_on) ELSE 0)

\* the for loop of lines 160-165, from segment i on
RECURSIVE RenderFills(_, _, _, _)
RenderFills(r, i, count, ch) ==
    IF i > Len(FILL_GREEN_NOTES) THEN r
    ELSE RenderFills(note_on(r, FILL_GREEN_NOTES[i],
                             IF i - 1 < count THEN APC_VEL.green ELSE APC_VEL.off, ch),
                     i + 1, count, ch)

\* the debounce left out: every call emits
reflect_apc_leds_NoDebounce(r, deck, force, d2c, blink) ==
    IF deck.name \notin DOMAIN d2c THEN r
    ELSE LET ch == d2c[deck.name]
             sig == SigOf(deck, ch, blink[ch])
             r57 == note_on(r, NEXT_CLIP_NOTE, sig.v57, ch)
             r52 == note_on(r57, STOP_NOTE, sig.v52, ch)
             rf == RenderFills(r52, 1, sig.greens, ch)
         IN  [rf EXCEPT !.sigs[deck.name] = sig]

\* _reflect_apc_leds with one try around the whole emission: the first refused
\* write ends it
reflect_apc_leds_OneTry(r, deck, force, d2c, blink) ==
    IF deck.name \notin DOMAIN d2c THEN r
    ELSE LET ch == d2c[deck.name]
             sig == SigOf(deck, ch, blink[ch])
         IN  IF ~force /\ r.sigs[deck.name] = sig THEN r
             ELSE LET r57 == note_on(r, NEXT_CLIP_NOTE, sig.v57, ch)
                      r52 == note_on(r57, STOP_NOTE, sig.v52, ch)
                      rf == RenderFills(r52, 1, sig.greens, ch)
                  IN  IF ~r57.writes[Len(r57.writes)].ok THEN r57
                      ELSE IF ~r52.writes[Len(r52.writes)].ok THEN r52
                      ELSE [rf EXCEPT !.sigs[deck.name] = sig]

\* _reflect_apc_leds recording the signature only when the sink took every
\* write of the emission
reflect_apc_leds_SigOnSuccess(r, deck, force, d2c, blink) ==
    IF deck.name \notin DOMAIN d2c THEN r
    ELSE LET ch == d2c[deck.name]
             sig == SigOf(deck, ch, blink[ch])
         IN  IF ~force /\ r.sigs[deck.name] = sig THEN r
             ELSE LET r57 == note_on(r, NEXT_CLIP_NOTE, sig.v57, ch)
                      r52 == note_on(r57, STOP_NOTE, sig.v52, ch)
                      rf == RenderFills(r52, 1, sig.greens, ch)
                  IN  IF \A i \in (Len(r.writes) + 1)..Len(rf.writes) : rf.writes[i].ok
                      THEN [rf EXCEPT !.sigs[deck.name] = sig]
                      ELSE rf

\* _reflect_apc_leds(deck, force) with deck_to_channel d2c
reflect_apc_leds(r, deck, force, d2c, blink) ==
    IF deck.name \notin DOMAIN d2c THEN r
    ELSE LET ch == d2c[deck.name]
             sig == SigOf(deck, ch, blink[ch])
         IN  IF ~force /\ r.sigs[deck.name] = sig THEN r
             ELSE LET r57 == note_on(r, NEXT_CLIP_NOTE, sig.v57, ch)
                      r52 == note_on(r57, STOP_NOTE, sig.v52, ch)
                      rf == RenderFills(r52, 1, sig.greens, ch)
                  IN  [rf EXCEPT !.sigs[deck.name] = sig]

\* _tick: for d in deck_mgr.all_decks(), in the order of the dict
RECURSIVE TickFrom(_, _, _, _, _)
TickFrom(r, j, order, d2c, blink) ==
    IF j > Len(order) THEN r
    ELSE TickFrom(reflect_apc_leds(r, decks[order[j]], FALSE, d2c, blink), j + 1, order, d2c, blink)

reflector_tick(r, order, d2c, blink) == TickFrom(r, 1, order, d2c, blink)

\* the bypass kept: refresh_deck leaves the entry out of _last_apc_sig
refresh_deck_KeepsBypass(r, ds, deck_name, d2c, blink) ==
    IF deck_name = "" \/ deck_name \notin DOMAIN ds THEN r
    ELSE LET e == reflect_apc_leds([r EXCEPT !.sigs[deck_name] = NoSig],
                                   ds[deck_name], TRUE, d2c, blink)
         IN  [e EXCEPT !.sigs[deck_name] = NoSig]

\* refresh_deck(deck_name) with DeckManager.decks = ds
refresh_deck(r, ds, deck_name, d2c, blink) ==
    IF deck_name = "" \/ deck_name \notin DOMAIN ds THEN r
    ELSE reflect_apc_leds([r EXCEPT !.sigs[deck_name] = NoSig],
                          ds[deck_name], TRUE, d2c, blink)

\* self.channel_to_deck.get(int(ch)); "" when no deck has the channel
channel_to_deck(d2c, ch) ==
    IF \E d \in DOMAIN d2c : d2c[d] = ch
    THEN CHOOSE d \in DOMAIN d2c : d2c[d] = ch
    ELSE ""

\* refresh_deck_by_channel(ch)
refresh_deck_by_channel(r, ds, ch, d2c, blink) ==
    LET name == channel_to_deck(d2c, ch)
    IN  IF name # "" THEN refresh_deck(r, ds, name, d2c, blink) ELSE r

----------------------------------------------------------------------------
\* The state after construction (DeckManager.__init__, InputMapper.__init__,
\* App.__init__ and the composition load of App.run).

\* set(group_to_deck.values()) iterates in an order the hash seed decides
DeckOrders == { o \in [1..Cardinality(DeckNames) -> DeckNames] :
                    \A i, j \in DOMAIN o : i # j => o[i] # o[j] }

NoEvent == DeviceEvent("", StrCtl("", ""), 0)

\* DeckManager.decks as __init__ builds it
InitDecks == [d \in DeckNames |-> DeckState(d)]

\* the record of the last operation; before: the deck states it started from
Op(kind, ev, last, calls, m) ==
    [kind |-> kind, sent |-> m.sent, exc |-> m.exc, last |-> last, calls |-> calls,
     event |-> ev, attempts |-> m.n, before |-> decks]

NoOp == [kind |-> "init", sent |-> <<>>, exc |-> "none", last |-> 0, calls |-> <<>>,
         event |-> NoEvent, attempts |-> 0, before |-> InitDecks]

\* _match_control called with control and pattern; result "unset" until it returns
MatchCall(control, pattern, result) ==
    [control |-> control, pattern |-> pattern, result |-> result]

NoMatchCall == MatchCall(NoEvent.control, NoEvent.control, "unset")

\* a call of _scale_to_01; result is -1 until it has returned
ScaleCall(control, value, scale, result) ==
    [value |-> value, control |-> control, scale |-> scale, result |-> result]

NoScaleCall == ScaleCall(StrCtl("", ""), 0, <<>>, 0 - 1)

\* no handler is on the stack: the event loop is free to resume any task.  call
\* is the handler, pc the number of the field write it makes next, start the deck
\* states it was entered with
Idle == [call |-> Call("", "", "", 0), pc |-> 0, start |-> InitDecks]

\* everything but match_call
InitApp ==
    /\ decks = InitDecks
    /\ deck_order \in DeckOrders
    /\ groups_by_index = InitGroupsByIndex
    /\ groups_by_name = InitGroupsByName
    /\ last_values = <<>>
    /\ event_queue = <<>>
    /\ pump = "running"
    /\ running = Idle
    /\ ops = 0
    /\ op = NoOp

\* the fields of DeckState
DeckFields == {"name", "playing", "effects", "colors", "transform", "fill", "opacity",
               "last_changed"}

\* the (deck, field) pairs in which the deck states a and b differ
DeckDiff(a, b) == { x \in DeckNames \X DeckFields : a[x[1]][x[2]] # b[x[1]][x[2]] }

\* the record of the last reflector operation.  writes: its note_on calls;
\* sigs: _last_apc_sig when it started; at: the deck states it read; prev,
\* prev_deck: kind and deck of the reflector operation before it; diff: what
\* changed in the deck states between the two; n: reflector operations counted
LedOp(kind, deck, r, before, n) ==
    [deck |-> deck, kind |-> kind, n |-> n, at |-> decks, sigs |-> last_apc_sig,
     writes |-> r.writes, prev |-> before.kind, prev_deck |-> before.deck,
     diff |-> DeckDiff(before.at, decks)]

NoSigs == [d \in DeckNames |-> NoSig]

NoLedOp ==
    [deck |-> "", kind |-> "init", n |-> 0, at |-> InitDecks, sigs |-> NoSigs,
     writes |-> <<>>, prev |-> "init", prev_deck |-> "", diff |-> {}]

\* the channels deck_to_channel d2c uses
ChannelsOf(d2c) == { d2c[d] : d \in DOMAIN d2c }

\* the reflector as __init__ leaves it, with an apc_bus (enable_apc40) and
\* deck_to_channel built from c2d; the indicators are off (all_notes_off at start)
InitReflector(c2d) ==
    /\ deck_to_channel = build_deck_to_channel_from_cfg(c2d)
    /\ last_apc_sig = NoSigs
    /\ leds = [k \in ChannelsOf(deck_to_channel) \X LedNotes |-> APC_VEL.off]
    /\ led_op = NoLedOp
    /\ lost = FALSE

\* devices.apc40.channel_to_deck: {2: stage, 1: crowd}
BothDecks == << Pair(2, "stage"), Pair(1, "crowd") >>

\* the sink takes every note_on, or refuses every one
SinkModes == { [at |-> 0, down |-> b] : b \in BOOLEAN }

\* what _blink_on(ch) returns depends on the time of the call
Blinks == [ChannelsOf(deck_to_channel) -> BOOLEAN]

Refusal(r) == \E i \in DOMAIN r.writes : ~r.writes[i].ok

\* no configuration expanded
InitTemplates == cfg = NoCfg /\ expanded = <<>>

Init == InitApp /\ match_call = NoMatchCall /\ scale_call = NoScaleCall /\ InitTemplates /\ InitReflector(BothDecks)

----------------------------------------------------------------------------
\* The Action Registry called directly: any caller holding the registry calls a
\* handler with the arguments its def declares.

\* 0.25 + 7.9e-7: within 1e-6 of the step 0.25 and not equal to it
NearQuarter == Unit \div 4 + 1

\* values handed to set_fill: negative, the five steps, a value beside a step,
\* between 1 and 127, above 127
FillArgs == { 0 - (Unit \div 2), 0, Unit \div 4, NearQuarter, Unit \div 2,
              (3 * Unit) \div 4, Unit, 64 * Unit, 200 * Unit }

\* values handed to set_opacity
OpacityArgs == { 0 - (Unit \div 2), 64 * Unit, 200 * Unit }

Picks == 0..MaxPick

Rnd(pick, sel, step) == [pick |-> pick, sel |-> sel, step |-> step]

\* the outcomes of random.sample when a fill f is fired on deck, {} when it is not called
SampleDraws(deck, f) ==
    LET n == Len(layers_of_type_for_deck(deck, "fills"))
    IN  IF deck \in DeckNames /\ Sampled(Clamp01(f), n)
        THEN { s \in SUBSET (1..n) : Cardinality(s) = SampleSize(RatioQuarters(Clamp01(f)), n) }
        ELSE {{}}

DoCall(c, fail, rnd) ==
    LET m == Invoke(Start(decks, fail, rnd), c)
    IN  /\ ops < MaxOps
        /\ ~m.bad
        /\ decks' = m.decks
        /\ ops' = ops + 1
        /\ op' = Op("call", NoEvent, 0, <<c>>, m)
        /\ lost' = (lost /\ m.decks = decks)
        /\ UNCHANGED <<deck_order, groups_by_index, groups_by_name, last_values,
                       event_queue, pump, running, match_call, scale_call, template_vars, reflector_vars>>

ToggleEffects ==
    \E deck \in DeckArgs, fail \in FailModes, pick \in Picks :
        DoCall(Call("toggle_effects", "deck", deck, 0), fail, Rnd(pick, {}, 0))

ToggleColors ==
    \E deck \in DeckArgs, fail \in FailModes, pick \in Picks :
        DoCall(Call("toggle_colors", "deck", deck, 0), fail, Rnd(pick, {}, 0))

ToggleTransform ==
    \E deck \in DeckArgs, fail \in FailModes, pick \in Picks :
        DoCall(Call("toggle_transform", "deck", deck, 0), fail, Rnd(pick, {}, 0))

SetFill ==
    \E deck \in DeckArgs, v \in FillArgs, fail \in FailModes, pick \in Picks :
        \E sel \in SampleDraws(deck, Normalize127(v)) :
            DoCall(Call("set_fill", "deck_value", deck, v), fail, Rnd(pick, sel, 0))

SetOpacity ==
    \E deck \in DeckArgs, v \in OpacityArgs, fail \in FailModes :
        DoCall(Call("set_opacity", "deck_value", deck, v), fail, NoRnd)

StopDeck ==
    \E deck \in DeckArgs, fail \in FailModes :
        DoCall(Call("stop_deck", "deck", deck, 0), fail, NoRnd)

RandomFills ==
    \E deck \in DeckArgs, fail \in FailModes, pick \in Picks, step \in 0..4 :
        \E sel \in SampleDraws(deck, (step * Unit) \div 4) :
            DoCall(Call("random_fills", "deck", deck, 0), fail, Rnd(pick, sel, step))

NextClip ==
    \E deck \in DeckArgs, fail \in FailModes :
        DoCall(Call("next_clip", "deck", deck, 0), fail, NoRnd)

NextOrRandom ==
    \E deck \in DeckArgs, fail \in FailModes, pick \in Picks, step \in 0..4 :
        \E sel \in SampleDraws(deck, (step * Unit) \div 4) \cup {{}} :
            DoCall(Call("next_or_random", "deck", deck, 0), fail, Rnd(pick, sel, step))

StopAllDecks ==
    \E a \in {"stop_all_decks"}, fail \in FailModes :
        DoCall(Call(a, "none", "", 0), fail, NoRnd)

Autopilot ==
    \E a \in {"start_autopilot", "stop_autopilot"}, fail \in FailModes :
        DoCall(Call(a, "none", "", 0), fail, NoRnd)

ToggleRecord ==
    \E a \in {"toggle_record"}, fail \in FailModes :
        DoCall(Call(a, "none", "", 0), fail, NoRnd)

Nudge ==
    \E a \in {"nudge_minus", "nudge_plus"}, fail \in FailModes :
        DoCall(Call(a, "none", "", 0), fail, NoRnd)

Next ==
    \/ ToggleEffects \/ ToggleColors \/ ToggleTransform
    \/ SetFill \/ SetOpacity \/ StopDeck \/ RandomFills \/ NextClip \/ NextOrRandom
    \/ StopAllDecks \/ Autopilot \/ ToggleRecord \/ Nudge

Spec == Init /\ [][Next]_vars

----------------------------------------------------------------------------
\* The event path: devices push DeviceEvents, _pump_events takes them one at a
\* time and hands each to InputMapper.handle_event.

Note48 == TupleCtl("note", 48, 3, 1)

Cc7 == TupleCtl("cc", 7, 3, 1)

Button0 == StrCtl("button_", "0")

\* the control of note 53 on mido channel 0, the channel of crowd
Note53 == TupleCtl("note", 53, 3, 0)

\* the expanded binding list the InputMapper is built with
Bindings ==
    << Rule("apc40", Note48, "toggle_effects", "stage", "press", <<>>, <<>>),
       Rule("apc40", TupleCtl("note", 48, 2, 0), "toggle_colors", "crowd", "press", <<>>, <<>>),
       Rule("apc40", Note48, "toggle_transform", "stage", "release", <<>>, <<>>),
       Rule("apc40", Note48, "tempo_tap", "", "press", <<>>, <<>>),
       Rule("apc40", Note48, "strobe", "stage", "both", <<>>, <<>>),
       Rule("apc40", Note48, "set_fill", "crowd", "press", <<Unit \div 4>>, <<>>),
       Rule("apc40", Cc7, "set_fill", "crowd", "both", <<>>, <<>>),
       Rule("apc40", Cc7, "set_opacity", "stage", "both", <<>>, <<>>),
       Rule("apc40", Cc7, "nudge_plus", "", "both", <<>>, <<>>),
       Rule("joystick", Button0, "next_clip", "crowd", "both", <<>>, <<>>),
       Rule("apc40", Note53, "stop_deck", "crowd", "release", <<>>, <<>>),
       Rule("apc40", Note53, "toggle_colors", "crowd", "release", <<>>, <<>>) >>

\* a mido message as _cb reads it: num is msg.note or msg.control, val is
\* msg.velocity or msg.value
MidiMsg(type, num, channel, val) ==
    [val |-> val, num |-> num, channel |-> channel, type |-> type]

\* a callback that pushes the release velocity of a note_off
midi_cb_OffVelocity(device_name, msg) ==
    IF msg.type \in {"note_on", "note_off"}
    THEN << DeviceEvent(device_name, TupleCtl("note", msg.num, 3, msg.channel), msg.val * Unit) >>
    ELSE IF msg.type = "control_change"
    THEN << DeviceEvent(device_name, TupleCtl("cc", msg.num, 3, msg.channel), msg.val * Unit) >>
    ELSE <<>>

\* _cb(msg) of MidiInputDevice: the events it pushes, none for other message types
midi_cb(device_name, msg) ==
    IF msg.type = "note_on"
    THEN << DeviceEvent(device_name, TupleCtl("note", msg.num, 3, msg.channel), msg.val * Unit) >>
    ELSE IF msg.type = "note_off"
    THEN << DeviceEvent(device_name, TupleCtl("note", msg.num, 3, msg.channel), 0) >>
    ELSE IF msg.type = "control_change"
    THEN << DeviceEvent(device_name, TupleCtl("cc", msg.num, 3, msg.channel), msg.val * Unit) >>
    ELSE <<>>

\* what the ports deliver: note 48 on channel 1 and note 53 on channel 0 pressed,
\* released by a note_off (with a release velocity) or by a note_on of velocity
\* 0, a control change, and a message _cb has no branch for
MidiMessages ==
    { MidiMsg("note_on", n[1], n[2], v) : n \in {<<48, 1>>, <<53, 0>>}, v \in {0, 90} }
    \cup { MidiMsg("note_off", n[1], n[2], 64) : n \in {<<48, 1>>, <<53, 0>>} }
    \cup { MidiMsg("control_change", 7, 1, 64), MidiMsg("pitchwheel", 0, 1, 64) }

\* the events _cb of the device pushes for the messages
MidiEvents(device_name, msgs) ==
    { midi_cb(device_name, msg)[1] : msg \in { x \in msgs : midi_cb(device_name, x) # <<>> } }

\* what the devices can push: the events of the MIDI messages of the apc40, a
\* joystick button, and a note of a device no rule names
Events ==
    MidiEvents("apc40", MidiMessages)
    \cup { DeviceEvent("joystick", Button0, v) : v \in {0, Unit} }
    \cup MidiEvents("launchpad", {MidiMsg("note_on", 48, 1, 90)})

\* the notes whose release repaints the deck of the channel (run.py line 108)
ReleaseRefreshNotes == {57, 56, 55, 54, 53, 52}

\* the test of lines 99-108 of _pump_events
refresh_after(ev) ==
    /\ ev.device = "apc40"
    /\ ev.control.kind = "note"
    /\ ev.control.len >= 2
    /\ ev.control.num \in ReleaseRefreshNotes
    /\ ev.value = 0

\* ch of line 107: control[2], or 0 for a control of two items
refresh_channel(ev) == IF ev.control.len >= 3 THEN ev.control.ch ELSE 0

\* await self.event_queue.put(ev): asyncio.Queue appends at the tail
queue_put(q, ev) == Append(q, ev)

\* a queue handing out the item put last
queue_get_Newest(q) == <<q[Len(q)], SubSeq(q, 1, Len(q) - 1)>>

\* await self.event_queue.get(): the item put first, and the queue without it
queue_get(q) == <<Head(q), Tail(q)>>

\* BaseInputDevice.push_event
PushEvent ==
    /\ pump = "running"
    /\ ops < MaxEvents
    /\ Len(event_queue) < MaxQueue
    /\ \E ev \in Events : event_queue' = queue_put(event_queue, ev)
    /\ ops' = ops + 1
    /\ UNCHANGED <<decks, deck_order, groups_by_index, groups_by_name, last_values,
                   pump, running, op, match_call, scale_call, template_vars, reflector_vars, lost>>

\* one turn of the while loop of _pump_events: handle_event is awaited outside
\* the try, so an exception leaving it ends the task before the LED refresh of
\* lines 98-112; when handle_event returns, the refresh runs on the deck states
\* the handlers left.
PumpEvent ==
    /\ pump = "running"
    /\ event_queue # <<>>
    /\ \E fail \in FailModes, pick \in Picks :
      \E blink \in IF refresh_after(queue_get(event_queue)[1]) THEN Blinks ELSE {[c \in {} |-> TRUE]},
         sink \in IF refresh_after(queue_get(event_queue)[1]) THEN SinkModes ELSE {NoFail} :
        LET ev == queue_get(event_queue)[1]
            r == handle_event(Start(decks, fail, Rnd(pick, {}, 0)), Bindings, ev)
            led == refresh_deck_by_channel(LedStart(last_apc_sig, leds, sink), r.m.decks,
                                           refresh_channel(ev), deck_to_channel, blink)
        IN  /\ ~r.m.bad
            /\ last_values' = CacheAfter(last_values, ev)
            /\ decks' = r.m.decks
            /\ event_queue' = queue_get(event_queue)[2]
            /\ pump' = IF r.m.exc = "none" THEN "running" ELSE "dead"
            /\ op' = Op("event", ev, LastOf(last_values, ev), r.calls, r.m)
            /\ IF r.m.exc = "none" /\ refresh_after(ev)
               THEN /\ last_apc_sig' = led.sigs
                    /\ leds' = led.leds
                    /\ led_op' = [LedOp("refresh", channel_to_deck(deck_to_channel, refresh_channel(ev)),
                                         led, led_op, led_op.n + 1)
                                     EXCEPT !.at = r.m.decks, !.diff = DeckDiff(led_op.at, r.m.decks)]
                    /\ lost' = ((lost /\ r.m.decks = decks) \/ Refusal(led))
               ELSE /\ UNCHANGED <<last_apc_sig, leds, led_op>>
                    /\ lost' = (lost /\ r.m.decks = decks)
    /\ UNCHANGED <<deck_order, groups_by_index, groups_by_name, ops, running, match_call, scale_call, template_vars,
                   deck_to_channel>>

NextDispatch == PushEvent \/ PumpEvent

SpecDispatch == Init /\ [][NextDispatch]_vars

----------------------------------------------------------------------------
\* InputMapper._match_control on its own: a control as a device sends it (or
\* a MIDI tuple without channel) against a pattern as a binding writes it.

\* numbers and channels of the MIDI tuples tried
MidiNumbers == {48, 49}

MidiChannels == {0, 1}

\* ("note" | "cc", number) and ("note" | "cc", number, channel)
MidiTuples ==
    { TupleCtl(k, n, 2, 0) : k \in {"note", "cc"}, n \in MidiNumbers }
    \cup { TupleCtl(k, n, 3, c) : k \in {"note", "cc"}, n \in MidiNumbers, c \in MidiChannels }

\* "button_0", "button_1", "axis_0"
StringControls == { StrCtl("button_", "0"), StrCtl("button_", "1"), StrCtl("axis_", "0") }

Controls == MidiTuples \cup StringControls

InitMatch ==
    /\ InitApp
    /\ InitTemplates
    /\ InitReflector(BothDecks)
    /\ \E c \in Controls, p \in Controls : match_call = MatchCall(c, p, "unset")
    /\ scale_call = NoScaleCall

MatchControl ==
    /\ match_call.result = "unset"
    /\ match_call' = [match_call EXCEPT
            !.result = IF match_control(match_call.control, match_call.pattern)
                       THEN "true" ELSE "false"]
    /\ UNCHANGED <<decks, deck_order, groups_by_index, groups_by_name, last_values,
                   event_queue, pump, running, ops, op, scale_call, template_vars, reflector_vars,
                   lost>>

NextMatch == MatchControl

SpecMatch == InitMatch /\ [][NextMatch]_vars

----------------------------------------------------------------------------
\* _scale_to_01 as a function of its arguments.

\* a joystick axis, a control change, and two controls no normalization applies to
ScaleControls == { StrCtl("axis_", "2"), Cc7, Note48, Button0 }

\* raw values: axis positions in and beyond -1..1, cc values in and beyond 0..127
RawValues ==
    { 0 - 2 * Unit, 0 - Unit, 0 - (Unit \div 2), 0, Unit \div 2, Unit,
      64 * Unit, 127 * Unit, 200 * Unit }

\* the ends of a value_scale window, in the normalized domain and beyond it
WindowEnds == { 0 - (Unit \div 2), 0, Unit \div 4, Unit \div 2, Unit, 2 * Unit }

\* value_scale: absent, or [lo, hi] in any order
ValueScales == { <<>> } \cup { <<lo, hi>> : lo \in WindowEnds, hi \in WindowEnds }

InitScale ==
    /\ InitApp
    /\ match_call = NoMatchCall
    /\ InitTemplates
    /\ InitReflector(BothDecks)
    /\ \E c \in ScaleControls, v \in RawValues, sc \in ValueScales :
           scale_call = ScaleCall(c, v, sc, 0 - 1)

ScaleTo01 ==
    /\ scale_call.result = 0 - 1
    /\ scale_call' = [scale_call EXCEPT
            !.result = scale_to_01(scale_call.control, scale_call.value, scale_call.scale)]
    /\ UNCHANGED <<decks, deck_order, groups_by_index, groups_by_name, last_values,
                   event_queue, pump, running, ops, op, match_call, template_vars, reflector_vars,
                   lost>>

NextScale == ScaleTo01

SpecScale == InitScale /\ [][NextScale]_vars

----------------------------------------------------------------------------
\* expand_templates on its own: App.__init__ calls it once on the loaded
\* configuration; here it is called up to MaxExpands times on the same cfg.

\* per_deck blocks in a configuration
MaxBlocks == 2

\* calls of expand_templates on one configuration
MaxExpands == 2

\* {control: ["note", 48, "{channel}"], action: "set_fill", deck: "{deck}"}
FillSkeleton ==
    DictV(<< Entry(Text("control"), ListV(<<Text("note"), IntV(48), ChannelPlaceholder>>)),
             Entry(Text("action"), Text("set_fill")),
             Entry(Text("deck"), DeckPlaceholder) >>)

\* {control: ["cc", 7, "{channel}"], action: "set_opacity", deck: "{deck}",
\*  params: {targets: ["{deck}", {ch: "{channel}", label: "deck:{deck}"}]}}
NestedSkeleton ==
    DictV(<< Entry(Text("control"), ListV(<<Text("cc"), IntV(7), ChannelPlaceholder>>)),
             Entry(Text("action"), Text("set_opacity")),
             Entry(Text("deck"), DeckPlaceholder),
             Entry(Text("params"),
                   DictV(<< Entry(Text("targets"),
                                  ListV(<< DeckPlaceholder,
                                           DictV(<< Entry(Text("ch"), ChannelPlaceholder),
                                                    Entry(Text("label"),
                                                          StrV(<<"deck:", "{deck}">>)) >>) >>)) >>)) >>)

\* {device: "launchpad", control: ["note", 48], action: "stop_deck", deck: "{deck}"}
OwnDeviceSkeleton ==
    DictV(<< Entry(Text("device"), Text("launchpad")),
             Entry(Text("control"), ListV(<<Text("note"), IntV(48)>>)),
             Entry(Text("action"), Text("stop_deck")),
             Entry(Text("deck"), DeckPlaceholder) >>)

\* {device: "{deck}", control: "button_0", action: "next_clip", deck: "{deck}"}
DeckDeviceSkeleton ==
    DictV(<< Entry(Text("device"), DeckPlaceholder),
             Entry(Text("control"), Text("button_0")),
             Entry(Text("action"), Text("next_clip")),
             Entry(Text("deck"), DeckPlaceholder) >>)

\* a global rule: {device: "joystick", control: "button_1", action: "stop_all_decks"}
GlobalStop ==
    DictV(<< Entry(Text("device"), Text("joystick")),
             Entry(Text("control"), Text("button_1")),
             Entry(Text("action"), Text("stop_all_decks")) >>)

\* a global rule holding a placeholder: {control: ["note", 49, 0], action: "stop_deck", deck: "{deck}"}
GlobalWithPlaceholder ==
    DictV(<< Entry(Text("control"), ListV(<<Text("note"), IntV(49), IntV(0)>>)),
             Entry(Text("action"), Text("stop_deck")),
             Entry(Text("deck"), DeckPlaceholder) >>)

\* a static binding: {device: "apc40", control: ["cc", 7, 1], action: "set_opacity", deck: "stage"}
StaticOpacity ==
    DictV(<< Entry(Text("device"), Text("apc40")),
             Entry(Text("control"), ListV(<<Text("cc"), IntV(7), IntV(1)>>)),
             Entry(Text("action"), Text("set_opacity")),
             Entry(Text("deck"), Text("stage")) >>)

RuleLists ==
    { <<>>, <<FillSkeleton, NestedSkeleton>>, <<OwnDeviceSkeleton, FillSkeleton>>,
      <<DeckDeviceSkeleton>> }

\* blocks of a device with decks, of a device without channel_to_deck, of a
\* device the configuration does not hold, and without device key
Blocks ==
    { Block("apc40", rs) : rs \in RuleLists }
    \cup { Block(d, <<FillSkeleton>>) : d \in {"launchpad", "nodev", ""} }

\* channel_to_deck of apc40: human channels inside and outside 1..16
ChannelMaps ==
    { << Pair(2, "stage") >>,
      << Pair(2, "stage"), Pair(1, "crowd") >>,
      << Pair(17, "crowd"), Pair(0, "stage") >> }

SeqsUpTo(S, n) == UNION { [1..k -> S] : k \in 0..n }

TemplateCfgs ==
    { Cfg(<< Device("apc40", c2d), Device("launchpad", <<>>) >>, pd, g, b) :
        c2d \in ChannelMaps, pd \in SeqsUpTo(Blocks, MaxBlocks),
        g \in { <<>>, <<GlobalStop, GlobalWithPlaceholder>> },
        b \in { <<>>, <<StaticOpacity>> } }

InitExpand ==
    /\ InitApp
    /\ match_call = NoMatchCall /\ scale_call = NoScaleCall
    /\ cfg \in TemplateCfgs
    /\ expanded = <<>>
    /\ InitReflector(BothDecks)

\* expanded_bindings = expand_templates(cfg)
ExpandTemplates ==
    /\ Len(expanded) < MaxExpands
    /\ expanded' = Append(expanded, expand_templates(cfg))
    /\ UNCHANGED <<decks, deck_order, groups_by_index, groups_by_name, last_values,
                   event_queue, pump, running, ops, op, match_call, scale_call, cfg, reflector_vars, lost>>

NextExpand == ExpandTemplates

SpecExpand == InitExpand /\ [][NextExpand]_vars

----------------------------------------------------------------------------
\* The reflector beside the Action Registry: StateReflector.run ticks on its
\* timer, refresh_deck is called from outside, and handlers change the decks
\* between two reflector operations (the tasks share one event loop, and neither
\* _tick nor refresh_deck awaits).

\* reflector operations in one run
MaxLedOps == 2

\* handler calls in one run
MaxLedCalls == 3

\* values handed to set_fill
LedFills == { Unit \div 4, Unit }

\* _tick() with the sink in one of the modes fails; n: the count the record takes
TickStep(fails, n) ==
    \E blink \in Blinks, fail \in fails :
        LET r == reflector_tick(LedStart(last_apc_sig, leds, fail), deck_order,
                                deck_to_channel, blink)
        IN  /\ last_apc_sig' = r.sigs
            /\ leds' = r.leds
            /\ led_op' = LedOp("tick", "", r, led_op, n)
            /\ lost' = (lost \/ Refusal(r))
            /\ UNCHANGED <<decks, deck_order, groups_by_index, groups_by_name, last_values,
                           event_queue, pump, running, ops, op, match_call, scale_call, template_vars,
                           deck_to_channel>>

\* refresh_deck(deck_name) for one of names
RefreshStep(names, fails, n) ==
    \E deck_name \in names, blink \in Blinks, fail \in fails :
        LET r == refresh_deck(LedStart(last_apc_sig, leds, fail), decks, deck_name,
                              deck_to_channel, blink)
        IN  /\ last_apc_sig' = r.sigs
            /\ leds' = r.leds
            /\ led_op' = LedOp("refresh", deck_name, r, led_op, n)
            /\ lost' = (lost \/ Refusal(r))
            /\ UNCHANGED <<decks, deck_order, groups_by_index, groups_by_name, last_values,
                           event_queue, pump, running, ops, op, match_call, scale_call, template_vars,
                           deck_to_channel>>

\* a handler called while the transport works, in a run of at most max calls; of
\* what it does only the deck states matter to the reflector
ReflectCall(c, sel, max) ==
    LET m == Invoke(Start(decks, NoFail, Rnd(0, sel, 0)), c)
    IN  /\ ops < max
        /\ ~m.bad
        /\ decks' = m.decks
        /\ ops' = ops + 1
        /\ lost' = (lost /\ m.decks = decks)
        /\ UNCHANGED <<deck_order, groups_by_index, groups_by_name, last_values, event_queue,
                       pump, running, op, match_call, scale_call, template_vars, reflector_vars>>

\* one turn of the while loop of StateReflector.run
Tick == led_op.n < MaxLedOps /\ TickStep(SinkModes, led_op.n + 1)

\* StateReflector.refresh_deck(deck_name)
RefreshDeck == led_op.n < MaxLedOps /\ RefreshStep(DeckArgs, SinkModes, led_op.n + 1)

ReflectSetFill ==
    \E deck \in DeckNames, v \in LedFills :
        \E sel \in SampleDraws(deck, Normalize127(v)) :
            ReflectCall(Call("set_fill", "deck_value", deck, v), sel, MaxLedCalls)

ReflectStopDeck ==
    \E deck \in DeckNames : ReflectCall(Call("stop_deck", "deck", deck, 0), {}, MaxLedCalls)

NextReflect == Tick \/ RefreshDeck \/ ReflectSetFill \/ ReflectStopDeck

SpecReflect == Init /\ [][NextReflect]_vars

----------------------------------------------------------------------------
\* One reflector operation on decks as handlers may have left them.

\* the note_on calls of one operation that the sink may refuse singly
MaxLedFailAt == 2

LedFailModes == { [at |-> k, down |-> FALSE] : k \in 0..MaxLedFailAt }
                \cup { [at |-> 0, down |-> TRUE] }

\* devices.apc40.channel_to_deck: one deck mapped, both decks mapped
LedChannelMaps == { << Pair(2, "stage") >>, BothDecks }

\* fills the decks hold: the eighths of 0..1
EmitFills == { (k * Unit) \div 8 : k \in 0..8 }

\* a deck never played or stopped, or playing with some fill
EmitDecks ==
    { DeckState(d) : d \in DeckNames }
    \cup { [DeckState(d) EXCEPT !.playing = TRUE, !.fill = f] : d \in DeckNames, f \in EmitFills }

InitEmit ==
    /\ decks \in { ds \in [DeckNames -> EmitDecks] : \A d \in DeckNames : ds[d].name = d }
    /\ deck_order \in DeckOrders
    /\ groups_by_index = InitGroupsByIndex
    /\ groups_by_name = InitGroupsByName
    /\ last_values = <<>>
    /\ event_queue = <<>>
    /\ pump = "running"
    /\ running = Idle
    /\ ops = 0
    /\ op = NoOp
    /\ match_call = NoMatchCall /\ scale_call = NoScaleCall
    /\ InitTemplates
    /\ \E c2d \in LedChannelMaps : InitReflector(c2d)

\* _tick(), once
EmitTick == led_op.n = 0 /\ TickStep(LedFailModes, 1)

\* refresh_deck(deck_name), once
EmitRefresh == led_op.n = 0 /\ RefreshStep(DeckArgs \cup {""}, LedFailModes, 1)

NextEmit == EmitTick \/ EmitRefresh

SpecEmit == InitEmit /\ [][NextEmit]_vars

----------------------------------------------------------------------------
\* The reflector running for ever: run() calls _tick every 1 / hz seconds, and
\* the blink of a channel has changed after half a blink period.

\* handler calls in such a run
MaxLiveCalls == 3

\* one deck mapped
InitLive ==
    InitApp /\ match_call = NoMatchCall /\ scale_call = NoScaleCall /\ InitTemplates
    /\ InitReflector(<< Pair(2, "stage") >>)

\* one turn of the while loop of StateReflector.run, not counted
KeepTicking == TickStep(SinkModes, led_op.n)

LiveSetFill ==
    \E deck \in DOMAIN deck_to_channel, v \in LedFills :
        \E sel \in SampleDraws(deck, Normalize127(v)) :
            ReflectCall(Call("set_fill", "deck_value", deck, v), sel, MaxLiveCalls)

LiveStopDeck ==
    \E deck \in DOMAIN deck_to_channel :
        ReflectCall(Call("stop_deck", "deck", deck, 0), {}, MaxLiveCalls)

\* a handler changing a field no indicator shows
LiveToggleEffects ==
    \E deck \in DOMAIN deck_to_channel :
        ReflectCall(Call("toggle_effects", "deck", deck, 0), {}, MaxLiveCalls)

NextLive == KeepTicking \/ LiveSetFill \/ LiveStopDeck \/ LiveToggleEffects

\* the deck is mapped and playing, and its last signature holds blink flag b
BlinkWas(d, b) ==
    (d \in DOMAIN deck_to_channel /\ decks[d].playing) => last_apc_sig[d].b52 = b

\* time passes: a playing deck is seen with its blink on and with its blink off
\* again and again
BlinkFair == \A d \in DeckNames : []<>BlinkWas(d, 1) /\ []<>BlinkWas(d, 0)

SpecLive == InitLive /\ [][NextLive]_vars /\ WF_vars(KeepTicking) /\ BlinkFair

----------------------------------------------------------------------------
\* Properties.

\* the handler calls handle_event is expected to make for ev: one per rule that
\* matches and meets its edge, in list order
RECURSIVE ExpectedCalls(_, _, _)
ExpectedCalls(rules, ev, last) ==
    IF rules = <<>> THEN <<>>
    ELSE (IF Selected(Head(rules), ev, last) THEN <<CallOf(Head(rules), ev)>> ELSE <<>>)
         \o ExpectedCalls(Tail(rules), ev, last)

\* how often call c occurs in calls
Count(calls, c) == Cardinality({ i \in DOMAIN calls : calls[i] = c })

\* the transport accepted every message of the last operation
NothingRefused == op.attempts = Len(op.sent)

\* C1: for a press (release) rule on a buttonish control, the handler is called
\* exactly once by each event on that control whose previous value was 0 and
\* whose value is not (previous not 0 and value 0), and by no other event
C1_EdgeCallsOnce ==
    op.kind = "event" =>
        \A i \in DOMAIN Bindings :
            LET r == Bindings[i]
                rising == op.last = 0 /\ op.event.value # 0
                falling == op.last # 0 /\ op.event.value = 0
                met == IF r.edge = "press" THEN rising ELSE falling
            IN  ( /\ r.edge \in {"press", "release"}
                  /\ r.action \in Registered
                  /\ r.device = op.event.device
                  /\ match_control(op.event.control, r.control)
                  /\ is_buttonish(op.event.control) )
                => Count(op.calls, CallOf(r, op.event)) = (IF met THEN 1 ELSE 0)

\* C2: when a handler raises, handle_event still calls the handlers of the
\* remaining matching rules and returns normally
C2_HandlerFailureContained ==
    op.kind = "event" =>
        /\ op.exc = "none"
        /\ Len(op.calls) = Len(ExpectedCalls(Bindings, op.event, op.last))

\* C3: no refusal of the transport propagates out of a registry handler
C3_SendFailureCaught == op.kind = "call" => op.exc # "send"

\* C4: a failure while an event is processed does not stop the consumer task:
\* events still waiting in the queue have a running consumer
C4_ConsumerSurvives == event_queue # <<>> => pump = "running"

\* the address a pulse handler pulses
PulsePath(action) ==
    CASE action = "tempo_tap" -> "/composition/tempocontroller/tempotap"
      [] action = "bpm_resync" -> "/composition/tempocontroller/resync"
      [] action = "toggle_metronome" -> "/composition/tempocontroller/metronome"

\* C5: when a rule for a pulse handler fires through handle_event, the
\* transport receives the on message (1) on that handler's address
C5_PulseSendsOn ==
    (op.kind = "event" /\ op.exc = "none" /\ NothingRefused) =>
        \A i \in DOMAIN op.calls :
            op.calls[i].action \in CoroutineActions =>
                \E j \in DOMAIN op.sent :
                    op.sent[j] = PathMsg(PulsePath(op.calls[i].action), 1)

\* C6: on a continuous control, a deck-scoped handler that takes a value is
\* called as handler(deck, v) with v the normalized value of the event
C6_ValueHandlerGetsValue ==
    (op.kind = "event" /\ op.event.control.kind = "cc") =>
        \A i \in DOMAIN op.calls :
            op.calls[i].action \in DeckValueActions =>
                /\ op.calls[i].args = "deck_value"
                /\ op.calls[i].value = op.event.value \div 127

\* C7: every event taken by handle_event sets the cache entry of exactly its
\* (device, control) to its value and leaves the other entries alone, whether
\* or not a handler is called; the edge test reads the entry as it was before
C7_CacheTracksEveryEvent ==
    [][ Len(event_queue') < Len(event_queue) =>
            LET ev == Head(event_queue)
                key == <<ev.device, ev.control>>
            IN  /\ key \in DOMAIN last_values'
                /\ last_values'[key] = ev.value
                /\ \A k \in DOMAIN last_values :
                       k # key => k \in DOMAIN last_values' /\ last_values'[k] = last_values[k]
                /\ DOMAIN last_values' \subseteq DOMAIN last_values \cup {key}
                /\ op'.last = (IF key \in DOMAIN last_values THEN last_values[key] ELSE 0)
      ]_vars

\* a second note-on without a release: no handler is called, the cache holds it
C7_Witness ==
    /\ op.kind = "event"
    /\ op.event = DeviceEvent("apc40", Note48, 90 * Unit)
    /\ op.last = 90 * Unit
    /\ op.calls = <<>>
    /\ <<"apc40", Note48>> \in DOMAIN last_values
    /\ last_values[<<"apc40", Note48>>] = 90 * Unit

\* C8: the handlers of all rules that match an event and meet their edge are
\* called, once each, in list order
C8_AllMatchingFireInOrder ==
    op.kind = "event" => op.calls = ExpectedCalls(Bindings, op.event, op.last)

\* C9: a deck-scoped handler called with a deck name DeckManager does not hold
\* changes no DeckState and sends nothing
C9_UnknownDeckNoEffect ==
    [][ (ops' # ops /\ op'.kind = "call" /\ op'.calls[1].deck = GhostDeck) =>
            /\ decks' = decks
            /\ op'.sent = <<>>
            /\ op'.attempts = 0
            /\ op'.exc = "none"
      ]_vars

\* toggle_effects on the absent deck, after an operation that changed a deck
C9_Witness ==
    /\ op.kind = "call"
    /\ op.calls[1] = Call("toggle_effects", "deck", GhostDeck, 0)
    /\ op.sent = <<>>
    /\ decks # [d \in DeckNames |-> DeckState(d)]

\* C10: fill and opacity of every deck lie in [0, 1] in every reachable state
C10_FillOpacityInRange ==
    \A d \in DOMAIN decks :
        /\ 0 <= decks[d].fill /\ decks[d].fill <= Unit
        /\ 0 <= decks[d].opacity /\ decks[d].opacity <= Unit

\* set_fill with a value above 127 has stored 1.0
C10_Witness ==
    /\ op.kind = "call"
    /\ op.calls[1].action = "set_fill"
    /\ op.calls[1].value > 127 * Unit
    /\ op.calls[1].deck \in DeckNames
    /\ decks[op.calls[1].deck].fill = Unit

\* the last operation is a direct call of the handler action on a deck DeckManager holds
CallOn(action) ==
    /\ op.kind = "call"
    /\ op.calls[1].action = action
    /\ op.calls[1].deck \in DeckNames

\* clamp(v / 127, 0, 1) when v > 1.0, clamp(v, 0, 1) otherwise
FillWanted(v) == IF v > Unit THEN Max2(0, Min2(Unit, v \div 127)) ELSE Max2(0, Min2(Unit, v))

\* C11 (as stated): set_fill(deck, v) on an existing deck stores exactly
\* clamp(v / 127, 0, 1) when v > 1.0 and clamp(v, 0, 1) otherwise, and leaves
\* playing = true
C11_StoresNormalized ==
    CallOn("set_fill") =>
        /\ decks[op.calls[1].deck].fill = FillWanted(op.calls[1].value)
        /\ decks[op.calls[1].deck].playing

\* C11 (amended): set_fill stores the normalized value when it differs from
\* the fill held before by more than 1e-6 and keeps the fill held before
\* otherwise, so the stored fill is within 1e-6 of the normalized value; in
\* every case playing = true afterwards
C11_StoresWithinTolerance ==
    CallOn("set_fill") =>
        LET c == op.calls[1]
            had == op.before[c.deck].fill
            want == FillWanted(c.value)
        IN  /\ decks[c.deck].fill = (IF Abs(had - want) * 100 > Unit \div 10000 THEN want ELSE had)
            /\ Abs(decks[c.deck].fill - want) * 100 <= Unit \div 10000
            /\ decks[c.deck].playing

\* set_fill of 0.25 + 7.9e-7 on a deck whose fill was 0.25: the fill stays 0.25
C11_Witness ==
    /\ CallOn("set_fill")
    /\ op.calls[1].value = NearQuarter
    /\ op.before[op.calls[1].deck].fill = Unit \div 4
    /\ decks[op.calls[1].deck].fill = Unit \div 4
    /\ decks[op.calls[1].deck].playing

\* the layers of the groups group_to_deck maps to deck
LayersOfDeck(deck) ==
    { li \in UNION { { g.layers[i] : i \in DOMAIN g.layers } :
                        g \in { groups_by_index[k] : k \in DOMAIN groups_by_index } } :
        \E k \in DOMAIN groups_by_index, p \in DOMAIN group_to_deck :
            /\ group_to_deck[p].deck = deck
            /\ group_to_deck[p].group = groups_by_index[k].name
            /\ \E i \in DOMAIN groups_by_index[k].layers : groups_by_index[k].layers[i] = li }

FillLayersOfDeck(deck) == { li \in LayersOfDeck(deck) : "fills" \in li.types }

\* positions in the messages of the last operation of the clip connects of layer li
Connects(li) == { j \in DOMAIN op.sent : op.sent[j].kind = "connect" /\ op.sent[j].a = li.index }

\* ... that connect the stop column of li (stop commands)
Stops(li) ==
    { j \in Connects(li) :
        op.sent[j].b = (IF li.stop_clip # NoStopClip THEN li.stop_clip ELSE 1) }

\* ... that connect one of its clips, or a column of 2..10 if it has none
\* (activate commands)
Activates(li) ==
    { j \in Connects(li) :
        IF li.clips # <<>> THEN \E i \in DOMAIN li.clips : op.sent[j].b = li.clips[i]
        ELSE op.sent[j].b \in 2..10 }

\* the canonical steps 0, 0.25, 0.5, 0.75, 1.0
Steps == { 0, Unit \div 4, Unit \div 2, (3 * Unit) \div 4, Unit }

\* C12: set_fill whose resulting value is within 1e-4 of a canonical step,
\* equal to it or not, sends an activate or a stop command to every
\* fills-typed layer of the deck's groups
C12_NearStepFiresSelection ==
    ( /\ CallOn("set_fill")
      /\ NothingRefused
      /\ \E s \in Steps : Abs(FillWanted(op.calls[1].value) - s) < Unit \div 10000 )
    => \A li \in FillLayersOfDeck(op.calls[1].deck) : Connects(li) # {}

\* every layer the composition holds
AllLayers ==
    UNION { { groups_by_index[k].layers[i] : i \in DOMAIN groups_by_index[k].layers } :
            k \in DOMAIN groups_by_index }

StepCount(q, n) ==
    LET whole == (q * n) \div 4
        rest == (q * n) % 4
        rounded == IF rest < 2 THEN whole
                   ELSE IF rest > 2 THEN whole + 1
                   ELSE IF whole % 2 = 0 THEN whole ELSE whole + 1
    IN  IF rounded < 1 THEN 1 ELSE rounded

C15_StopDeckStopsEveryLayer ==
    CallOn("stop_deck") =>
        /\ ~decks[op.calls[1].deck].playing
        /\ decks[op.calls[1].deck].fill = 0
        /\ NothingRefused =>
               \A li \in AllLayers :
                   IF li \in LayersOfDeck(op.calls[1].deck)
                   THEN Cardinality(Connects(li)) = 1 /\ Stops(li) = Connects(li)
                   ELSE Connects(li) = {}

\* stop_deck(stage) on a playing deck with a fill: the effects layer 3 and
\* the colors/transforms layer 4 of Stage were stopped too
C15_Witness ==
    /\ CallOn("stop_deck")
    /\ NothingRefused
    /\ op.calls[1].deck = "stage"
    /\ op.before["stage"].playing
    /\ op.before["stage"].fill > 0
    /\ \E j \in DOMAIN op.sent :
           op.sent[j].kind = "connect" /\ op.sent[j].a = 3 /\ op.sent[j].b = 1
    /\ \E j \in DOMAIN op.sent :
           op.sent[j].kind = "connect" /\ op.sent[j].a = 4 /\ op.sent[j].b = 1

\* positions in the messages of the last operation of the connect-next commands of li
NextClips(li) ==
    { j \in DOMAIN op.sent : op.sent[j].kind = "connectnextclip" /\ op.sent[j].a = li.index }

\* C16: next_clip(deck) changes no DeckState and sends a connect-next command
\* to the layers of the deck that are fills-typed, or colors- / transforms- /
\* effects-typed with the colors / transform / effects flag of the deck true
\* when it is called, and to no other layer
C16_NextClipFollowsFlags ==
    CallOn("next_clip") =>
        LET d == op.before[op.calls[1].deck]
            due(li) == /\ li \in LayersOfDeck(op.calls[1].deck)
                       /\ \/ "fills" \in li.types
                          \/ "colors" \in li.types /\ d.colors
                          \/ "transforms" \in li.types /\ d.transform
                          \/ "effects" \in li.types /\ d.effects
        IN  /\ decks = op.before
            /\ NothingRefused =>
                   /\ \A li \in AllLayers : (NextClips(li) # {}) <=> due(li)
                   /\ \A j \in DOMAIN op.sent : op.sent[j].kind = "connectnextclip"

\* next_clip(stage) with colors on and effects off: the colors layer 4
\* advances with the fills layers 1 and 2, the effects layer 3 does not
C16_Witness ==
    /\ CallOn("next_clip")
    /\ NothingRefused
    /\ op.calls[1].deck = "stage"
    /\ op.before["stage"].colors
    /\ ~op.before["stage"].effects
    /\ \E j \in DOMAIN op.sent : op.sent[j].kind = "connectnextclip" /\ op.sent[j].a = 4
    /\ \E j \in DOMAIN op.sent : op.sent[j].kind = "connectnextclip" /\ op.sent[j].a = 1
    /\ ~\E j \in DOMAIN op.sent : op.sent[j].kind = "connectnextclip" /\ op.sent[j].a = 3

\* the toggle handlers and the DeckState field each of them names
Toggles ==
    { <<"toggle_effects", "effects">>, <<"toggle_colors", "colors">>,
      <<"toggle_transform", "transform">> }

\* C17: toggle_effects / toggle_colors / toggle_transform (deck) negates the
\* named flag of that deck and changes nothing else in any deck; every value
\* sent on /deck/<deck>/<flag> is the new value of the flag, and it is sent
\* when the transport accepts; a toggle of the state one toggle of the same
\* flag left restores the DeckState the first one started from
C17_ToggleFlipsOneFlag ==
    \A t \in Toggles :
        CallOn(t[1]) =>
            LET deck == op.calls[1].deck
                new == ~op.before[deck][t[2]]
                flagMsgs == { j \in DOMAIN op.sent :
                                /\ op.sent[j].kind = "deck"
                                /\ op.sent[j].name = deck
                                /\ op.sent[j].field = t[2] }
            IN  /\ decks = [op.before EXCEPT ![deck][t[2]] = new]
                /\ \A j \in flagMsgs : op.sent[j].val = (IF new THEN 1 ELSE 0)
                /\ NothingRefused => flagMsgs # {}
                /\ op.before = [InitDecks EXCEPT ![deck][t[2]] = TRUE] => decks = InitDecks

\* the second toggle_colors(crowd) of a run: the flag is false again, 0 was
\* sent on /deck/crowd/colors and the DeckState is the initial one
C17_Witness ==
    /\ ops = 2
    /\ CallOn("toggle_colors")
    /\ op.calls[1].deck = "crowd"
    /\ op.before = [InitDecks EXCEPT !["crowd"]["colors"] = TRUE]
    /\ decks = InitDecks
    /\ \E j \in DOMAIN op.sent :
           /\ op.sent[j].kind = "deck" /\ op.sent[j].name = "crowd"
           /\ op.sent[j].field = "colors" /\ op.sent[j].val = 0

\* time.time() as the calls of a run read it: the decks are built at time 0
\* (last_changed = 0), the k-th call of the registry runs at time k
CallTime == ops

\* a field other than last_changed differs between the DeckStates a and b
FieldsChanged(a, b) == [a EXCEPT !.last_changed = 0] # [b EXCEPT !.last_changed = 0]

\* C18: a handler call that changes a field of a DeckState sets the
\* last_changed of that deck to the time of the call
C18_ChangeStampsDeck ==
    op.kind = "call" =>
        \A d \in DeckNames :
            FieldsChanged(op.before[d], decks[d]) => decks[d].last_changed = CallTime

\* C19: a pattern (kind, number, channel) matches a control exactly when the
\* control is a tuple of that kind and number carrying that channel; a
\* pattern (kind, number) matches every tuple of that kind and number, with
\* any channel or none; a string pattern matches the equal string only
C19_MatchControl ==
    match_call.result # "unset" =>
        LET c == match_call.control
            p == match_call.pattern
            expected ==
                IF p.kind = "str"
                THEN c.kind = "str" /\ c.prefix = p.prefix /\ c.rest = p.rest
                ELSE /\ c.kind = p.kind
                     /\ c.num = p.num
                     /\ p.len = 3 => (c.len = 3 /\ c.ch = p.ch)
        IN  (match_call.result = "true") <=> expected

\* ("note", 48, 0) against the pattern ("note", 48, 1): the channel differs, no match
C19_Witness ==
    /\ match_call.result = "false"
    /\ match_call.control.kind = "note" /\ match_call.pattern.kind = "note"
    /\ match_call.control.num = 48 /\ match_call.pattern.num = 48
    /\ match_call.control.len = 3 /\ match_call.pattern.len = 3
    /\ match_call.control.ch = 0 /\ match_call.pattern.ch = 1

\* C20: a set_fill rule with a fixed value and edge press on a note control
\* has set_fill(deck, fixed value) called exactly once, and with no other
\* value, by an event on its control that goes from 0 to non-zero; the
\* release (value 0) calls no set_fill for it and leaves the DeckState of its
\* deck as it was
C20_FixedValueEdgeGated ==
    op.kind = "event" =>
        \A i \in DOMAIN Bindings :
            LET r == Bindings[i]
                fills == { j \in DOMAIN op.calls :
                             op.calls[j].action = "set_fill" /\ op.calls[j].deck = r.deck }
            IN  ( /\ r.action = "set_fill" /\ r.fixed # <<>> /\ r.edge = "press"
                  /\ r.device = op.event.device
                  /\ op.event.control.kind = "note"
                  /\ match_control(op.event.control, r.control) )
                => IF op.last = 0 /\ op.event.value # 0
                   THEN /\ Cardinality(fills) = 1
                        /\ \A j \in fills : /\ op.calls[j].args = "deck_value"
                                             /\ op.calls[j].value = r.fixed[1]
                   ELSE fills = {} /\ decks[r.deck] = op.before[r.deck]

----------------------------------------------------------------------------
\* Properties of expand_templates (SpecExpand).

\* the values directly inside v: the elements of a list, the keys and values
\* of a dict in entry order (k1, v1, k2, v2, ...)
Children(v) ==
    IF v.t \in {"list", "tuple"} THEN v.items
    ELSE IF v.t = "dict"
         THEN [j \in 1..(2 * Len(v.items)) |->
                 IF j % 2 = 1 THEN v.items[(j + 1) \div 2].k ELSE v.items[j \div 2].v]
         ELSE <<>>

\* every place of v, as the sequence of child numbers leading to it
RECURSIVE Paths(_)
Paths(v) ==
    {<<>>} \cup UNION { { <<j>> \o p : p \in Paths(Children(v)[j]) } : j \in DOMAIN Children(v) }

RECURSIVE At(_, _)
At(v, path) == IF path = <<>> THEN v ELSE At(Children(v)[Head(path)], Tail(path))

\* the block's device is a key of devices
KnownDevice(b) == \E j \in DOMAIN cfg.devices : cfg.devices[j].key = cfg.per_deck[b].device

\* the (human channel, deck) items of the block's device, in channel_to_deck order
PairsOf(b) ==
    LET j == CHOOSE j \in DOMAIN cfg.devices : cfg.devices[j].key = cfg.per_deck[b].device
    IN  cfg.devices[j].channel_to_deck

BlockSize(b) == IF KnownDevice(b) THEN Len(PairsOf(b)) * Len(cfg.per_deck[b].rules) ELSE 0

\* bindings of the blocks before block b
RECURSIVE Offset(_)
Offset(b) == IF b = 1 THEN 0 ELSE Offset(b - 1) + BlockSize(b - 1)

PerDeckLen == Offset(Len(cfg.per_deck) + 1)

\* where the binding of rule r for pair p of block b is to stand
Position(b, p, r) == Offset(b) + (p - 1) * Len(cfg.per_deck[b].rules) + r

\* (block, pair, rule) of every per-deck binding
Origins ==
    UNION { { <<b, p, r>> : p \in DOMAIN PairsOf(b), r \in DOMAIN cfg.per_deck[b].rules } :
            b \in { x \in DOMAIN cfg.per_deck : KnownDevice(x) } }

\* C21: in every per-deck binding, each field of the skeleton that is the whole
\* string "{channel}" holds the integer max(0, min(15, human_channel - 1)) and
\* each field that is the whole string "{deck}" holds the deck name, at any depth
C21_PlaceholdersReplaced ==
    \A n \in DOMAIN expanded : \A o \in Origins :
        LET skeleton == cfg.per_deck[o[1]].rules[o[3]]
            pair == PairsOf(o[1])[o[2]]
            binding == expanded[n][Position(o[1], o[2], o[3])]
        IN  \A path \in Paths(skeleton) :
                /\ At(skeleton, path) = ChannelPlaceholder
                     => At(binding, path) = IntV(Max2(0, Min2(15, pair.ch - 1)))
                /\ At(skeleton, path) = DeckPlaceholder
                     => At(binding, path) = Text(pair.deck)

\* C22: the returned list is the per-deck bindings block by block, pair by pair,
\* rule by rule, then the global rules, then the static bindings, its length is
\* the sum of the three parts, and every call on the same cfg returns the same list
C22_ExpansionOrder ==
    \A n \in DOMAIN expanded :
        LET out == expanded[n]
        IN  /\ Len(out) = PerDeckLen + Len(cfg.global) + Len(cfg.bindings)
            /\ \A o \in Origins :
                 LET pair == PairsOf(o[1])[o[2]]
                 IN  out[Position(o[1], o[2], o[3])]
                       = RenderRule(cfg.per_deck[o[1]].rules[o[3]], cfg.per_deck[o[1]].device,
                                    Pair(Max2(0, Min2(15, pair.ch - 1)), pair.deck))
            /\ \A g \in DOMAIN cfg.global : out[PerDeckLen + g] = cfg.global[g]
            /\ \A k \in DOMAIN cfg.bindings :
                 out[PerDeckLen + Len(cfg.global) + k] = cfg.bindings[k]
            /\ \A n2 \in DOMAIN expanded : expanded[n2] = out

\* C22: a block of two rules over two decks after a block of an unknown
\* device, with global rules and static bindings, expanded twice
C22_Witness ==
    /\ Len(expanded) = 2
    /\ Len(cfg.per_deck) = 2
    /\ ~KnownDevice(1)
    /\ KnownDevice(2) /\ Len(PairsOf(2)) = 2 /\ Len(cfg.per_deck[2].rules) = 2
    /\ cfg.global # <<>> /\ cfg.bindings # <<>>

\* the value of the top-level key "device" of a rule, Text("") when it has none
DeviceField(rule) ==
    IF \E j \in DOMAIN rule.items : rule.items[j].k = Text("device")
    THEN rule.items[CHOOSE j \in DOMAIN rule.items : rule.items[j].k = Text("device")].v
    ELSE Text("")

\* C23: a per-deck binding whose skeleton carries a device field holds the
\* skeleton's device (rendered); the block's device key goes to the others only
C23_OwnDeviceKept ==
    \A n \in DOMAIN expanded : \A o \in Origins :
        LET skeleton == cfg.per_deck[o[1]].rules[o[3]]
            pair == PairsOf(o[1])[o[2]]
            binding == expanded[n][Position(o[1], o[2], o[3])]
        IN  DeviceField(binding) =
                IF DeviceField(skeleton) = Text("")
                THEN Text(cfg.per_deck[o[1]].device)
                ELSE render_placeholders(DeviceField(skeleton),
                                         Max2(0, Min2(15, pair.ch - 1)), pair.deck)

----------------------------------------------------------------------------
\* Properties of the state reflector (SpecReflect, SpecEmit, SpecLive).

\* the note_on calls of the last reflector operation on channel ch
WritesOn(ch) == SelectSeq(led_op.writes, LAMBDA w : w.ch = ch)

\* the notes of a sequence of note_on calls
NotesOf(ws) == [i \in DOMAIN ws |-> ws[i].note]

\* the notes of one emission, in the order _reflect_apc_leds writes them
EmissionNotes == <<NEXT_CLIP_NOTE, STOP_NOTE>> \o FILL_GREEN_NOTES

\* the last reflector operation was a tick, the one before it was a tick too,
\* and the deck states it read are those the earlier tick read
SecondTick == led_op.kind = "tick" /\ led_op.prev = "tick" /\ led_op.diff = {}

\* deck d is playing and the blink of its channel at the last reflector
\* operation is not the one its last signature was taken with
BlinkFlipped(d) ==
    /\ led_op.at[d].playing
    /\ led_op.sigs[d] # NoSig
    /\ last_apc_sig[d].b52 # led_op.sigs[d].b52

\* C24: two consecutive reflector ticks with no DeckState change between them:
\* the second tick emits zero indicator writes, for every mapped deck, playing
\* or not.
C24_SecondTickSilent == SecondTick => led_op.writes = <<>>

\* C24, amended: on the second of two consecutive ticks with no DeckState change
\* between them, a mapped deck gets no indicator write unless it is playing and
\* the blink of its channel has changed since the first tick; in that case all
\* six indicators of the deck are written again.
C24_SecondTickSilentUnlessBlink ==
    SecondTick =>
        \A d \in DOMAIN deck_to_channel :
            IF BlinkFlipped(d)
            THEN NotesOf(WritesOn(deck_to_channel[d])) = EmissionNotes
            ELSE WritesOn(deck_to_channel[d]) = <<>>

\* C24 witness: a second tick that wrote nothing for a playing deck and for a
\* stopped deck, after a first tick that wrote for both.
C24_Witness ==
    /\ SecondTick
    /\ led_op.writes = <<>>
    /\ \A d \in DeckNames : d \in DOMAIN deck_to_channel /\ led_op.sigs[d] # NoSig
    /\ \E d \in DeckNames : led_op.at[d].playing
    /\ \E d \in DeckNames : ~led_op.at[d].playing

\* the last reflector operation was a tick after a tick that had emitted for
\* every deck, and between the two only the fill of deck d changed
OnlyFillChanged(d) ==
    /\ led_op.kind = "tick" /\ led_op.prev = "tick"
    /\ led_op.diff = {<<d, "fill">>}
    /\ \A e \in DeckNames : e \in DOMAIN deck_to_channel /\ led_op.sigs[e] # NoSig

\* C25: after a tick has emitted for all decks, changing only one deck's fill
\* makes the next tick write only that deck's indicators: no write goes to any
\* other deck's channel.
C25_OnlyChangedDeckWritten ==
    \A d \in DeckNames :
        OnlyFillChanged(d) =>
            \A i \in DOMAIN led_op.writes : led_op.writes[i].ch = deck_to_channel[d]

\* C25, amended: after a tick has emitted for all decks, changing only one
\* deck's fill makes the next tick write no indicator of any other deck, unless
\* that other deck is playing and the blink of its channel has changed since the
\* earlier tick; the deck whose fill changed is written when its segment count
\* changed.
C25_OnlyChangedDeckOrBlinkWritten ==
    \A d \in DeckNames :
        OnlyFillChanged(d) =>
            /\ \A e \in DeckNames \ {d} :
                   ~BlinkFlipped(e) => WritesOn(deck_to_channel[e]) = <<>>
            /\ last_apc_sig[d].greens # led_op.sigs[d].greens
                   => NotesOf(WritesOn(deck_to_channel[d])) = EmissionNotes

\* C25 witness: both decks playing, the fill of one changed between two ticks,
\* and the second tick wrote that deck's indicators and nothing else.
C25_Witness ==
    \E d \in DeckNames :
        /\ OnlyFillChanged(d)
        /\ \A e \in DeckNames : led_op.at[e].playing
        /\ led_op.writes # <<>>
        /\ \A i \in DOMAIN led_op.writes : led_op.writes[i].ch = deck_to_channel[d]

\* the last reflector operation was refresh_deck(d) for a mapped deck d
Refreshed(d) ==
    led_op.kind = "refresh" /\ led_op.deck = d /\ d \in DOMAIN deck_to_channel

\* the last reflector operation was a tick straight after refresh_deck(d), on
\* deck states unchanged since
TickAfterRefresh(d) ==
    /\ led_op.kind = "tick" /\ led_op.prev = "refresh" /\ led_op.prev_deck = d
    /\ led_op.diff = {}
    /\ d \in DOMAIN deck_to_channel

\* C26: refresh_deck(name) on a mapped deck emits the deck's indicator writes
\* even when its signature equals the last emitted one, and an immediately
\* following tick with unchanged state emits nothing for that deck.
C26_RefreshBypassesOnce ==
    \A d \in DeckNames :
        /\ Refreshed(d) => NotesOf(WritesOn(deck_to_channel[d])) = EmissionNotes
        /\ TickAfterRefresh(d) => WritesOn(deck_to_channel[d]) = <<>>

\* C26, amended: refresh_deck(name) on a mapped deck emits the deck's six
\* indicator writes even when its signature equals the last emitted one, and an
\* immediately following tick with unchanged state emits nothing for that deck
\* unless the deck is playing and the blink of its channel has changed since the
\* refresh.
C26_RefreshBypassesOnceUnlessBlink ==
    \A d \in DeckNames :
        /\ Refreshed(d) => NotesOf(WritesOn(deck_to_channel[d])) = EmissionNotes
        /\ (TickAfterRefresh(d) /\ ~BlinkFlipped(d)) => WritesOn(deck_to_channel[d]) = <<>>

\* C26 witness: refresh_deck on a mapped deck whose signature was the one last
\* emitted, writing its six indicators all the same.
C26_Witness ==
    \E d \in DeckNames :
        /\ Refreshed(d)
        /\ led_op.sigs[d] = last_apc_sig[d]
        /\ Len(led_op.writes) = 6

\* the second half happening: a tick straight after the refresh of a playing
\* deck that wrote nothing for it
TickAfterRefreshSilent ==
    \E d \in DeckNames :
        /\ TickAfterRefresh(d)
        /\ led_op.at[d].playing
        /\ WritesOn(deck_to_channel[d]) = <<>>

\* the mapped decks in the order _tick visits them
MappedOrder == SelectSeq(deck_order, LAMBDA d : d \in DOMAIN deck_to_channel)

\* C27: if the write of one indicator raises during a deck's emission, the
\* writes of the remaining indicators of that deck are still attempted in the
\* same tick, and the other decks are still processed: a first tick attempts
\* the six indicators of every mapped deck, deck after deck, whichever writes
\* are refused.
C27_RefusedWriteIsolated ==
    (led_op.kind = "tick" /\ led_op.prev = "init") =>
        /\ Len(led_op.writes) = 6 * Len(MappedOrder)
        /\ \A k \in DOMAIN MappedOrder :
               /\ NotesOf(WritesOn(deck_to_channel[MappedOrder[k]])) = EmissionNotes
               /\ \A i \in 1..6 :
                      led_op.writes[6 * (k - 1) + i].ch = deck_to_channel[MappedOrder[k]]
        /\ \A d \in DeckNames :
               d \in DOMAIN deck_to_channel => last_apc_sig[d] # NoSig

\* C27 witness: a tick whose first write, note 57 of the first deck, was
\* refused, and which went on to write the other five indicators of that deck
\* and the six of the second deck.
C27_Witness ==
    /\ led_op.kind = "tick"
    /\ Len(led_op.writes) = 12
    /\ ~led_op.writes[1].ok
    /\ \A i \in 2..12 : led_op.writes[i].ok

\* the number of lit segments of a fill, told without Python's round: the
\* integer nearest to 4 * fill, the even one of the two when fill lies midway
LitSegments(fill) ==
    CHOOSE c \in 0..4 :
        /\ \A e \in 0..4 : Abs(8 * fill - 2 * c * Unit) <= Abs(8 * fill - 2 * e * Unit)
        /\ \A e \in 0..4 :
               (e # c /\ Abs(8 * fill - 2 * e * Unit) = Abs(8 * fill - 2 * c * Unit))
                   => c % 2 = 0

\* C28: the number of lit segments written for a deck is round(fill * 4)
\* limited to 0..4; the lit segments are the first `count` notes of
\* [56, 55, 54, 53] and the remaining ones are written off; fills 0, 0.25, 0.5,
\* 0.75, 1.0 give 0, 1, 2, 3, 4 lit segments.
C28_SegmentCount ==
    /\ \A k \in 0..4 : greens_count((k * Unit) \div 4) = k
    /\ \A d \in DOMAIN deck_to_channel :
           LET ws == WritesOn(deck_to_channel[d])
               count == LitSegments(led_op.at[d].fill)
           IN  (led_op.kind \in {"tick", "refresh"} /\ ws # <<>>) =>
                   /\ Len(ws) = 6
                   /\ \A i \in 1..4 :
                          /\ ws[2 + i].note = FILL_GREEN_NOTES[i]
                          /\ ws[2 + i].vel = (IF i <= count THEN APC_VEL.green ELSE APC_VEL.off)

\* C28 witness: an emission for a deck whose fill is 0.375, midway between one
\* and two segments, with 56 and 55 written green and 54 and 53 written off.
C28_Witness ==
    \E d \in DOMAIN deck_to_channel :
        LET ws == WritesOn(deck_to_channel[d])
        IN  /\ led_op.kind = "tick"
            /\ led_op.at[d].fill = (3 * Unit) \div 8
            /\ Len(ws) = 6
            /\ <<ws[3].vel, ws[4].vel, ws[5].vel, ws[6].vel>> = <<1, 1, 0, 0>>

Synced(d) ==
    LET ch == deck_to_channel[d]
    IN  /\ leds[<<ch, NEXT_CLIP_NOTE>>] = note57_vel(decks[d])
        /\ \A i \in DOMAIN FILL_GREEN_NOTES :
               leds[<<ch, FILL_GREEN_NOTES[i]>>] =
                   (IF i <= greens_count(decks[d].fill) THEN APC_VEL.green ELSE APC_VEL.off)

AllSynced == \A d \in DOMAIN deck_to_channel : Synced(d)

\* C30: after the last change to a mapped deck's DeckState, provided ticks keep
\* running and the sink accepts the writes from then on, the values last
\* written to the deck's four segment indicators and to note 57 eventually
\* correspond to the deck's fill and playing values and stay so.
C30_EventuallySynced == <>[]~lost => <>[]AllSynced

\* the same with a sink that never refused a write since the program started
SyncedIfNeverRefused == []~lost => <>[]AllSynced

----------------------------------------------------------------------------
\* Properties of the event pump (SpecDispatch).

\* C31: events are taken from the queue one at a time in FIFO order, and the
\* dispatch of an event is over, with every handler it fired returned, before
\* the next one is taken: a step that changes the queue either puts one event at
\* its tail and dispatches nothing, or takes the event at its head and is the
\* whole dispatch of that event, so that events leave in the order they came.
C31_FifoOneAtATime ==
    [][ event_queue' # event_queue =>
            \/ /\ \E ev \in Events : event_queue' = Append(event_queue, ev)
               /\ op' = op /\ decks' = decks /\ last_values' = last_values
            \/ /\ event_queue # <<>>
               /\ event_queue' = Tail(event_queue)
               /\ op'.kind = "event"
               /\ op'.event = Head(event_queue)
               /\ op'.before = decks
               /\ (op'.exc = "none" =>
                       op'.calls = ExpectedCalls(Bindings, Head(event_queue),
                                                 LastOf(last_values, Head(event_queue)))) ]_vars

\* C31 witness: two different events of one device were queued, the first has
\* been dispatched with its handlers called, the second still waits.
C31_Witness ==
    /\ op.kind = "event"
    /\ op.calls # <<>>
    /\ event_queue # <<>>
    /\ Head(event_queue).device = op.event.device
    /\ Head(event_queue) # op.event

----------------------------------------------------------------------------
\* Properties of _scale_to_01 (SpecScale).

IsAxis(c) == c.kind = "str" /\ c.prefix = "axis_"

\* C32: a cc value r in 0..127 maps to r/127 and an axis value v in [-1,1] to
\* (v+1)/2; the result is monotonic non-decreasing in the raw value, 0 at the
\* low end and 1 at the high end, and for any raw value and any value_scale
\* [lo, hi], lo = hi included, it lies in [0,1].
C32_Normalization ==
    /\ scale_to_01(Cc7, 0, <<>>) = 0
    /\ scale_to_01(Cc7, 127 * Unit, <<>>) = Unit
    /\ scale_to_01(StrCtl("axis_", "2"), 0 - Unit, <<>>) = 0
    /\ scale_to_01(StrCtl("axis_", "2"), Unit, <<>>) = Unit
    /\ scale_call.result # 0 - 1 =>
           LET c == scale_call.control
               v == scale_call.value
               sc == scale_call.scale
               r == scale_call.result
           IN  /\ 0 <= r /\ r <= Unit
               /\ (sc = <<>> /\ c.kind = "cc" /\ 0 <= v /\ v <= 127 * Unit) => 127 * r = v
               /\ (sc = <<>> /\ IsAxis(c) /\ 0 - Unit <= v /\ v <= Unit) => 2 * r = v + Unit
               /\ \A w \in RawValues : w <= v => scale_to_01(c, w, sc) <= r

\* C32 witness: an axis at 0.5 under the window [0.25, 1] gave a value strictly
\* between 0 and 1 (two thirds).
C32_Witness ==
    /\ IsAxis(scale_call.control)
    /\ scale_call.value = Unit \div 2
    /\ scale_call.scale = <<Unit \div 4, Unit>>
    /\ 3 * scale_call.result \in (2 * Unit - 3)..(2 * Unit)

----------------------------------------------------------------------------
\* Properties of the MIDI callback and the release edge (SpecDispatch)

\* the handler calls of the rules of the event's device and control whose edge
\* is one of edges, in the order of the binding list
RECURSIVE EdgeCalls(_, _, _)
EdgeCalls(rules, ev, edges) ==
    IF rules = <<>> THEN <<>>
    ELSE (IF /\ Head(rules).device = ev.device
             /\ match_control(ev.control, Head(rules).control)
             /\ Head(rules).action \in Registered
             /\ Head(rules).edge \in edges
          THEN <<CallOf(Head(rules), ev)>> ELSE <<>>)
         \o EdgeCalls(Tail(rules), ev, edges)

\* a note_off and a note_on of velocity 0 of one note and channel push one and
\* the same event: control ('note', note, channel), value 0
SameReleaseEvent ==
    \A off \in MidiMessages, on \in MidiMessages :
        ( /\ off.type = "note_off" /\ on.type = "note_on" /\ on.val = 0
          /\ off.num = on.num /\ off.channel = on.channel )
        => /\ midi_cb("apc40", off) = midi_cb("apc40", on)
           /\ midi_cb("apc40", off)
                = << DeviceEvent("apc40", TupleCtl("note", off.num, 3, off.channel), 0) >>

\* the event of a released note, dispatched after a non-zero value of the control
ReleaseDispatched ==
    /\ op.kind = "event"
    /\ op.event \in MidiEvents("apc40", { m \in MidiMessages : m.type = "note_off" })
    /\ op.last # 0

\* C33: a note_off and a note_on of velocity 0 push the same event, control
\* ('note', note, channel) with value 0, and that event, arriving after a non-zero
\* note_on, calls the handler of every matching release or both rule and of no
\* press rule
C33_ReleaseEquivalence ==
    /\ SameReleaseEvent
    /\ ReleaseDispatched =>
          /\ op.calls = EdgeCalls(Bindings, op.event, {"release", "both"})
          /\ \A i \in DOMAIN op.calls :
                Count(EdgeCalls(Bindings, op.event, {"press"}), op.calls[i]) = 0

\* the release calls are those of the release and both rules whenever no handler raises
ReleaseCallsUnlessRaised ==
    /\ SameReleaseEvent
    /\ (ReleaseDispatched /\ op.exc = "none") =>
          op.calls = EdgeCalls(Bindings, op.event, {"release", "both"})

\* a release of note 53 that called both of its handlers
ReleaseOfBothRules == ReleaseDispatched /\ Len(op.calls) = 2 /\ op.exc = "none"

----------------------------------------------------------------------------
\* Properties of the repaint after a release (SpecDispatch)

\* the step took an event off the queue
Pumped == event_queue # <<>> /\ event_queue' = Tail(event_queue)

\* the indicators and signatures a forced refresh of the deck on the event's
\* channel leaves when it runs on the deck states ds with the sink in mode sink
RepaintOf(ds, ev, blink, sink) ==
    refresh_deck_by_channel(LedStart(last_apc_sig, leds, sink), ds, refresh_channel(ev),
                            deck_to_channel, blink)

\* C35: the pump runs every handler bound to an apc40 release of a note 52..57
\* and then force-refreshes the deck of the event's channel from the deck states
\* the handlers left; any other event forces no refresh
C35_RepaintAfterHandlers ==
    [][Pumped =>
        LET ev == Head(event_queue)
        IN  IF ev.device = "apc40" /\ ev.control.kind = "note"
               /\ ev.control.num \in 52..57 /\ ev.value = 0
            THEN /\ op'.calls = ExpectedCalls(Bindings, ev, LastOf(last_values, ev))
                 /\ led_op'.kind = "refresh"
                 /\ led_op'.n = led_op.n + 1
                 /\ led_op'.deck = channel_to_deck(deck_to_channel, ev.control.ch)
                 /\ led_op'.at = decks'
                 /\ \E blink \in Blinks, sink \in SinkModes :
                        /\ leds' = RepaintOf(decks', ev, blink, sink).leds
                        /\ last_apc_sig' = RepaintOf(decks', ev, blink, sink).sigs
            ELSE UNCHANGED <<leds, last_apc_sig, led_op>>]_vars

\* the same, for the turns of the pump in which no handler raises
RepaintUnlessRaised ==
    [][(Pumped /\ op'.exc = "none") =>
        LET ev == Head(event_queue)
        IN  IF ev.device = "apc40" /\ ev.control.kind = "note"
               /\ ev.control.num \in 52..57 /\ ev.value = 0
            THEN /\ op'.calls = ExpectedCalls(Bindings, ev, LastOf(last_values, ev))
                 /\ led_op'.kind = "refresh"
                 /\ led_op'.n = led_op.n + 1
                 /\ led_op'.deck = channel_to_deck(deck_to_channel, ev.control.ch)
                 /\ led_op'.at = decks'
                 /\ \E blink \in Blinks, sink \in SinkModes :
                        /\ leds' = RepaintOf(decks', ev, blink, sink).leds
                        /\ last_apc_sig' = RepaintOf(decks', ev, blink, sink).sigs
            ELSE UNCHANGED <<leds, last_apc_sig, led_op>>]_vars

\* a release of note 53 stopped the playing deck crowd and the repaint that
\* followed wrote the indicators of the stopped deck
RepaintedAfterStop ==
    /\ op.kind = "event" /\ op.event.control = Note53 /\ op.exc = "none"
    /\ op.before["crowd"].playing /\ ~decks["crowd"].playing
    /\ led_op.kind = "refresh" /\ led_op.deck = "crowd"
    /\ led_op.writes # <<>>

----------------------------------------------------------------------------
\* Properties of the 'Next Clip' indicator (SpecEmit)

\* C34: note 57 is written green, whatever the blink, while the deck is playing,
\* and yellow or off (a blink) while the deck is not playing
C34_NextClipGreenOrBlinking ==
    \A d \in DOMAIN deck_to_channel :
        LET ws == WritesOn(deck_to_channel[d])
        IN  (led_op.kind \in {"tick", "refresh"} /\ ws # <<>>) =>
                /\ ws[1].note = NEXT_CLIP_NOTE
                /\ led_op.at[d].playing => ws[1].vel = APC_VEL.green
                /\ ~led_op.at[d].playing => ws[1].vel \in {APC_VEL.yellow, APC_VEL.off}

----------------------------------------------------------------------------
\* Handlers and the reflector on one event loop: a handler is a plain function
\* called from handle_event, _tick is a plain function called between two
\* awaits of StateReflector.run, and both tasks run on the loop of asyncio.run.
\* Here a handler is followed one field write at a time.

\* handler calls in one run
MaxAtomicCalls == 2

FieldWrite(deck, field, val) == [deck |-> deck, field |-> field, val |-> val]

\* the assignments to DeckState fields a handler makes, in program order, when
\* entered with the deck states ds: set_fill writes fill (if it differs) and then
\* playing (if not set); stop_deck writes playing and then fill
field_writes(ds, c) ==
    IF c.deck \notin DOMAIN ds THEN <<>>
    ELSE IF c.action = "set_fill"
    THEN (IF Differs(ds[c.deck].fill, Normalize127(c.value))
          THEN <<FieldWrite(c.deck, "fill", Normalize127(c.value))>> ELSE <<>>)
         \o (IF ~ds[c.deck].playing THEN <<FieldWrite(c.deck, "playing", TRUE)>> ELSE <<>>)
    ELSE IF c.action = "stop_deck"
    THEN <<FieldWrite(c.deck, "playing", FALSE), FieldWrite(c.deck, "fill", 0)>>
    ELSE <<>>

\* a loop that hands control to another task at any moment, as threads do
loop_free_Preemptive(r) == TRUE

\* the event loop resumes a task only when the running one awaits: a handler
\* awaits nothing, so no other task runs while one is on the stack
loop_free(r) == r.pc = 0

AtomicCalls ==
    { Call("set_fill", "deck_value", d, v) : d \in DeckNames, v \in LedFills }
    \cup { Call("stop_deck", "deck", d, 0) : d \in DeckNames }

\* handle_event calls cb(...): the handler is on the stack
EnterHandler ==
    /\ loop_free(running)
    /\ ops < MaxAtomicCalls
    /\ \E c \in AtomicCalls : running' = [call |-> c, pc |-> 1, start |-> decks]
    /\ ops' = ops + 1
    /\ UNCHANGED <<decks, deck_order, groups_by_index, groups_by_name, last_values, event_queue,
                   pump, op, match_call, scale_call, template_vars, reflector_vars, lost>>

\* the handler makes its next assignment to a field of the deck
WriteField ==
    LET ws == field_writes(running.start, running.call)
    IN  /\ running.pc \in 1..Len(ws)
        /\ decks' = [decks EXCEPT ![ws[running.pc].deck][ws[running.pc].field] = ws[running.pc].val]
        /\ running' = [running EXCEPT !.pc = running.pc + 1]
        /\ UNCHANGED <<deck_order, groups_by_index, groups_by_name, last_values, event_queue,
                       pump, ops, op, match_call, scale_call, template_vars, reflector_vars, lost>>

\* the handler returns after its last assignment (and its sends)
LeaveHandler ==
    /\ running.pc = Len(field_writes(running.start, running.call)) + 1
    /\ running' = [running EXCEPT !.pc = 0]
    /\ lost' = (lost /\ running.start = decks)
    /\ UNCHANGED <<decks, deck_order, groups_by_index, groups_by_name, last_values, event_queue,
                   pump, ops, op, match_call, scale_call, template_vars, reflector_vars>>

\* StateReflector.run resumes after its sleep and calls _tick()
LoopTick == loop_free(running) /\ led_op.n < MaxLedOps /\ TickStep({NoFail}, led_op.n + 1)

NextAtomic == EnterHandler \/ WriteField \/ LeaveHandler \/ LoopTick

SpecAtomic == Init /\ [][NextAtomic]_vars

----------------------------------------------------------------------------
\* Properties of handlers and ticks on one loop (SpecAtomic)

\* the assignments followed one at a time add up to the handler: when it has
\* returned the deck states are those the handler as a whole leaves
HandlerStepsAgree ==
    (running.pc = 0 /\ running.call.action # "") =>
        decks = Invoke(Start(running.start, NoFail, NoRnd), running.call).decks

\* a deck not playing with a fill that is not 0
Torn(ds) == \E d \in DOMAIN ds : ~ds[d].playing /\ ds[d].fill # 0

\* C36: no reflector tick runs between two field writes of one handler
\* invocation: every step that changes what the reflector read or wrote is taken
\* with no handler on the stack, and no tick reads a deck with playing false
\* and the fill of before the handler
C36_TickNeverInsideHandler ==
    /\ [](led_op.kind = "tick" => ~Torn(led_op.at))
    /\ [][(led_op' # led_op \/ leds' # leds \/ last_apc_sig' # last_apc_sig)
            => (running.pc = 0 /\ running' = running)]_vars

\* C36 witness: stop_deck has run on a playing deck between two ticks, and the
\* second tick read playing and fill both changed
C36_Witness ==
    /\ led_op.kind = "tick" /\ led_op.prev = "tick"
    /\ running.pc = 0 /\ running.call.action = "stop_deck"
    /\ {<<running.call.deck, "playing">>, <<running.call.deck, "fill">>} \subseteq led_op.diff

\* a handler stands between its two writes with the deck torn
InsideHandlerTorn == running.pc = 2 /\ Torn(decks)

----------------------------------------------------------------------------
\* Properties of playing and fill (Spec)

\* C37: in every state the handlers reach, a deck that is not playing has fill 0
C37_StoppedDeckHasNoFill ==
    \A d \in DOMAIN decks : ~decks[d].playing => decks[d].fill = 0

\* C37 witness: stop_deck has stopped a deck that was playing with a fill above
\* 0, and the deck is left with playing false and fill 0
C37_Witness ==
    /\ op.kind = "call" /\ Len(op.calls) = 1 /\ op.calls[1].action = "stop_deck"
    /\ op.calls[1].deck \in DOMAIN decks
    /\ op.before[op.calls[1].deck].playing /\ op.before[op.calls[1].deck].fill > 0
    /\ ~decks[op.calls[1].deck].playing /\ decks[op.calls[1].deck].fill = 0

----------------------------------------------------------------------------
\* DeckManager.upsert_group and upsert_layer, called for each group and layer
\* of a composition read over HTTP.  groups_by_name holds, for a name, the index
\* of the GroupInfo object the dict maps the name to.

\* upserts in one run
MaxUpserts == 3

UpsertIndexes == 1..3

GroupNames == {"Stage", "Crowd", "Booth"}

\* layer names, by the words they hold
LayerNames == { {"fills"}, {"effects", "colors"}, {"bg"} }

LayerTypes == {"fills", "effects", "colors", "transforms", "opacity"}

\* _layer_types_from_name(name)
layer_types_from_name(words) == words \cap LayerTypes

\* f with f[k] = v, k added if new
Put(f, k, v) == [x \in DOMAIN f \cup {k} |-> IF x = k THEN v ELSE f[x]]

\* upsert_group(group_index, group_name): the two dicts it leaves
upsert_group(gbi, gbn, group_index, group_name) ==
    [by_index |-> IF group_index \notin DOMAIN gbi
                  THEN Put(gbi, group_index,
                           [index |-> group_index, name |-> group_name, layers |-> <<>>])
                  ELSE [gbi EXCEPT ![group_index].name = group_name],
     by_name |-> Put(gbn, group_name, group_index)]

\* the layers of a group after upsert_layer: the layer of the index is replaced
\* where it stands, a new one comes last
PutLayer(layers, li) ==
    IF \E i \in DOMAIN layers : layers[i].index = li.index
    THEN [i \in DOMAIN layers |-> IF layers[i].index = li.index THEN li ELSE layers[i]]
    ELSE Append(layers, li)

GroupLabel(group_index) ==
    CASE group_index = 1 -> "Group 1" [] group_index = 2 -> "Group 2" [] OTHER -> "Group 3"

\* upsert_layer(group_index, layer_index, layer_name, clips=, stop_clip=)
upsert_layer(gbi, gbn, group_index, layer_index, layer_name, clips, stop_clip) ==
    LET g0 == IF group_index \notin DOMAIN gbi
              THEN Put(gbi, group_index, [index |-> group_index,
                                          name |-> GroupLabel(group_index), layers |-> <<>>])
              ELSE gbi
        li == LayerInfo(layer_index, layer_types_from_name(layer_name), clips, stop_clip)
    IN  [by_index |-> [g0 EXCEPT ![group_index].layers = PutLayer(@, li)],
         by_name |-> gbn]

UpsertGroup ==
    /\ ops < MaxUpserts
    /\ \E i \in UpsertIndexes, n \in GroupNames :
          /\ groups_by_index' = upsert_group(groups_by_index, groups_by_name, i, n).by_index
          /\ groups_by_name' = upsert_group(groups_by_index, groups_by_name, i, n).by_name
          /\ op' = [NoOp EXCEPT !.kind = "upsert_group", !.last = i]
    /\ ops' = ops + 1
    /\ UNCHANGED <<decks, deck_order, last_values, event_queue, pump, running, match_call,
                   scale_call, template_vars, reflector_vars, lost>>

UpsertLayer ==
    /\ ops < MaxUpserts
    /\ \E i \in UpsertIndexes, l \in {1, 7}, n \in LayerNames, s \in {NoStopClip, 1} :
          /\ groups_by_index'
               = upsert_layer(groups_by_index, groups_by_name, i, l, n, <<2>>, s).by_index
          /\ groups_by_name'
               = upsert_layer(groups_by_index, groups_by_name, i, l, n, <<2>>, s).by_name
          /\ op' = [NoOp EXCEPT !.kind = "upsert_layer", !.last = i]
    /\ ops' = ops + 1
    /\ UNCHANGED <<decks, deck_order, last_values, event_queue, pump, running, match_call,
                   scale_call, template_vars, reflector_vars, lost>>

NextGroups == UpsertGroup \/ UpsertLayer

SpecGroups == Init /\ [][NextGroups]_vars

----------------------------------------------------------------------------
\* Properties of the group dicts (SpecGroups)

\* C38: groups_by_name and groups_by_index hold the same GroupInfo objects, and
\* every key of groups_by_name is the current name of the object it maps to, so
\* a group renamed in place is found under its new name only
C38_GroupDictsAgree ==
    /\ { groups_by_name[n] : n \in DOMAIN groups_by_name } = DOMAIN groups_by_index
    /\ \A n \in DOMAIN groups_by_name : groups_by_index[groups_by_name[n]].name = n

\* every key of groups_by_name maps to an object groups_by_index holds
NamedGroupsIndexed ==
    \A n \in DOMAIN groups_by_name :
        /\ groups_by_name[n] \in DOMAIN groups_by_index
        /\ groups_by_index[groups_by_name[n]].index = groups_by_name[n]

\* group 1 was renamed in place and is found under its new name
RenamedInPlace ==
    /\ op.kind = "upsert_group" /\ op.last = 1
    /\ groups_by_index[1].name = "Booth"
    /\ "Booth" \in DOMAIN groups_by_name /\ groups_by_name["Booth"] = 1
    /\ groups_by_index[1].layers = InitGroupsByIndex[1].layers

----------------------------------------------------------------------------
\* Properties of an emission the sink refused (SpecReflect)

\* the sink refused a write of the last reflector operation on the channel of d
RefusedFor(d) ==
    \E i \in DOMAIN led_op.writes :
        led_op.writes[i].ch = deck_to_channel[d] /\ ~led_op.writes[i].ok

\* the step is a tick
TickTaken == led_op'.n = led_op.n + 1 /\ led_op'.kind = "tick"

\* the step is a tick straight after an emission for d that the sink refused,
\* on deck states unchanged since
TickAfterRefusal(d) == TickTaken /\ RefusedFor(d) /\ led_op.at = decks

\* the writes of the step on the channel of d
NextWritesOn(d) == SelectSeq(led_op'.writes, LAMBDA w : w.ch = deck_to_channel[d])

\* an emission for d leaves the signature of the deck it read in _last_apc_sig,
\* whether the sink took the writes or not
SigRecorded ==
    \A d \in DOMAIN deck_to_channel :
        (led_op.kind \in {"tick", "refresh"} /\ WritesOn(deck_to_channel[d]) # <<>>) =>
            \E b \in BOOLEAN : last_apc_sig[d] = SigOf(led_op.at[d], deck_to_channel[d], b)

\* a forced refresh of d writes its six indicators
RefreshRetries ==
    \A d \in DOMAIN deck_to_channel :
        (led_op'.n = led_op.n + 1 /\ led_op'.kind = "refresh" /\ led_op'.deck = d) =>
            NotesOf(NextWritesOn(d)) = EmissionNotes

\* C39: when an indicator write raises during a deck's emission the signature is
\* recorded all the same; a following tick with unchanged state emits nothing
\* for that deck, and a forced refresh writes the indicators again
C39_RefusedWriteNotRetried ==
    /\ []SigRecorded
    /\ [][ /\ \A d \in DOMAIN deck_to_channel : TickAfterRefusal(d) => NextWritesOn(d) = <<>>
           /\ RefreshRetries ]_vars

\* C39, amended: when an indicator write raises during a deck's emission the
\* signature is recorded all the same; a following tick with unchanged state
\* emits nothing for that deck unless the deck is playing and the blink of its
\* channel has changed, in which case the six indicators are written again; a
\* tick writes for a deck only when its signature changes, and a forced refresh
\* writes the six indicators whatever the signature
C39_RefusedWriteNotRetriedUnlessBlink ==
    /\ []SigRecorded
    /\ [][ /\ \A d \in DOMAIN deck_to_channel :
                /\ TickAfterRefusal(d) =>
                      \/ NextWritesOn(d) = <<>>
                      \/ /\ decks[d].playing
                         /\ last_apc_sig'[d].b52 # last_apc_sig[d].b52
                         /\ NotesOf(NextWritesOn(d)) = EmissionNotes
                /\ (TickTaken /\ NextWritesOn(d) # <<>>) => last_apc_sig'[d] # last_apc_sig[d]
           /\ RefreshRetries ]_vars

\* C39 witness: a tick that wrote nothing straight after a tick whose writes
\* the sink refused, the deck states unchanged: the signature of a deck holds
\* the colour of note 57 the indicator never took
C39_Witness ==
    /\ SecondTick /\ lost /\ led_op.writes = <<>>
    /\ \E d \in DOMAIN deck_to_channel :
          /\ last_apc_sig[d] # NoSig
          /\ leds[<<deck_to_channel[d], NEXT_CLIP_NOTE>>] # last_apc_sig[d].v57

----------------------------------------------------------------------------
\* The bindings of expand_templates handed to the InputMapper: App.__init__
\* expands the configuration and handle_event reads each binding dict with
\* rule.get(...).

\* events handled in one run
MaxFrameEvents == 2

\* a YAML float, in units
FloatV(n) == [i |-> n, t |-> "float", s |-> <<>>, items |-> <<>>]

HasKey(d, key) == \E j \in DOMAIN d.items : d.items[j].k = Text(key)

\* rule.get(key) of a binding dict holding the key
Get(d, key) == d.items[CHOOSE j \in DOMAIN d.items : d.items[j].k = Text(key)].v

\* rule.get(key) of a str entry, "" for None
GetText(d, key) == IF HasKey(d, key) /\ Get(d, key).t = "str" THEN Get(d, key).s[1] ELSE ""

\* the control pattern of a binding as _match_control reads it: a list or tuple
\* (kind, number[, channel])
PatternOf(v) ==
    IF v.t \in {"list", "tuple"} /\ Len(v.items) >= 2
    THEN TupleCtl(v.items[1].s[1], v.items[2].i, Len(v.items),
                  IF Len(v.items) >= 3 THEN v.items[3].i ELSE 0)
    ELSE StrCtl("", "")

\* a binding dict as handle_event reads it (lines 118-126, 150-154)
binding_of(d) ==
    Rule(GetText(d, "device"),
         IF HasKey(d, "control") THEN PatternOf(Get(d, "control")) ELSE StrCtl("", ""),
         GetText(d, "action"),
         GetText(d, "deck"),
         IF HasKey(d, "edge") THEN GetText(d, "edge") ELSE "both",
         IF HasKey(d, "fixed_value") THEN <<Get(d, "fixed_value").i>> ELSE <<>>,
         <<>>)

bindings_of(ds) == [j \in DOMAIN ds |-> binding_of(ds[j])]

\* {control: [kind, num, "{channel}"], action: action, deck: "{deck}", edge: edge}
DeckSkeleton(kind, num, action, edge) ==
    DictV(<< Entry(Text("control"), ListV(<<Text(kind), IntV(num), ChannelPlaceholder>>)),
             Entry(Text("action"), Text(action)),
             Entry(Text("deck"), DeckPlaceholder),
             Entry(Text("edge"), Text(edge)) >>)

\* the same with fixed_value: 0.5
FixedFillSkeleton ==
    DictV(<< Entry(Text("control"), ListV(<<Text("note"), IntV(48), ChannelPlaceholder>>)),
             Entry(Text("action"), Text("set_fill")),
             Entry(Text("deck"), DeckPlaceholder),
             Entry(Text("edge"), Text("press")),
             Entry(Text("fixed_value"), FloatV(Unit \div 2)) >>)

\* per-deck rule lists: every control carries "{channel}", every deck is "{deck}"
FrameRuleLists ==
    { << DeckSkeleton("note", 48, "toggle_effects", "press"), FixedFillSkeleton >>,
      << FixedFillSkeleton, DeckSkeleton("note", 48, "stop_deck", "release") >>,
      << DeckSkeleton("cc", 7, "set_fill", "both"),
         DeckSkeleton("note", 48, "random_fills", "press") >>,
      << DeckSkeleton("note", 48, "stop_all_decks", "press"),
         DeckSkeleton("note", 48, "toggle_colors", "both") >>,
      << DeckSkeleton("cc", 7, "set_opacity", "both"),
         DeckSkeleton("note", 48, "next_or_random", "press") >> }

\* channel_to_deck of apc40: distinct human channels in 1..16, distinct decks
FrameChannelMaps ==
    { << Pair(2, "stage"), Pair(1, "crowd") >>,
      << Pair(16, "stage") >> }

FrameCfgs ==
    { Cfg(<< Device("apc40", c2d), Device("launchpad", <<>>) >>, <<Block("apc40", rs)>>,
          <<>>, <<>>) :
        c2d \in FrameChannelMaps, rs \in FrameRuleLists }

\* what the ports deliver: notes and control changes on mapped and unmapped
\* channels of the apc40, and a note of the launchpad
FrameEvents ==
    MidiEvents("apc40", { MidiMsg("note_on", 48, c, v) : c \in {0, 1, 15}, v \in {0, 90} }
                        \cup { MidiMsg("control_change", 7, c, 64) : c \in {0, 1, 15} })
    \cup MidiEvents("launchpad", { MidiMsg("note_on", 48, 0, 90) })

InitFrame ==
    /\ InitApp
    /\ match_call = NoMatchCall /\ scale_call = NoScaleCall
    /\ cfg \in FrameCfgs
    /\ expanded = <<>>
    /\ InitReflector(BothDecks)

\* expanded_bindings = expand_templates(cfg), once, in App.__init__
FrameExpand ==
    /\ expanded = <<>>
    /\ expanded' = <<expand_templates(cfg)>>
    /\ UNCHANGED <<decks, deck_order, groups_by_index, groups_by_name, last_values,
                   event_queue, pump, running, ops, op, match_call, scale_call, cfg,
                   reflector_vars, lost>>

\* handle_event(ev) with the expanded bindings
FrameEvent ==
    /\ expanded # <<>>
    /\ ops < MaxFrameEvents
    /\ \E ev \in FrameEvents, fail \in { f \in FailModes : f.at = 0 }, sel \in SUBSET (1..2),
          step \in {0, 2} :
        LET r == handle_event(Start(decks, fail, Rnd(0, sel, step)), bindings_of(expanded[1]), ev)
        IN  /\ ~r.m.bad
            /\ last_values' = CacheAfter(last_values, ev)
            /\ decks' = r.m.decks
            /\ op' = Op("event", ev, LastOf(last_values, ev), r.calls, r.m)
            /\ lost' = (lost /\ r.m.decks = decks)
    /\ ops' = ops + 1
    /\ UNCHANGED <<deck_order, groups_by_index, groups_by_name, event_queue, pump, running,
                   match_call, scale_call, template_vars, reflector_vars>>

NextFrame == FrameExpand \/ FrameEvent

SpecFrame == InitFrame /\ [][NextFrame]_vars

----------------------------------------------------------------------------
\* Properties of the per-deck bindings (SpecFrame)

\* the deck channel_to_deck of device dev maps to the human channel, "" if none
DeckOfHuman(dev, human_ch) ==
    LET c2d == DeviceCfg(cfg.devices, dev).channel_to_deck
    IN  IF \E j \in DOMAIN c2d : c2d[j].ch = human_ch
        THEN c2d[CHOOSE j \in DOMAIN c2d : c2d[j].ch = human_ch].deck
        ELSE ""

\* C40: with the bindings expanded from per-deck rules, an event on device
\* channel c changes only the DeckState of the deck mapped to human channel
\* c + 1: every other deck is unchanged, and an event on an unmapped channel, or
\* of another device, changes no deck
C40_OnlyMappedDeckChanges ==
    op.kind = "event" =>
        \A d \in DOMAIN decks :
            decks[d] # op.before[d] =>
                /\ op.event.device = "apc40"
                /\ DeckOfHuman("apc40", op.event.control.ch + 1) = d

\* C40 witness: with both decks mapped, a second event has changed the deck of
\* its channel and left the other deck, changed by the first event, alone
C40_Witness ==
    /\ op.kind = "event" /\ ops = 2
    /\ Len(DeviceCfg(cfg.devices, "apc40").channel_to_deck) = 2
    /\ \E d, e \in DOMAIN decks :
          /\ d # e
          /\ DeckOfHuman("apc40", op.event.control.ch + 1) = d
          /\ decks[d] # op.before[d]
          /\ decks[e] = op.before[e] /\ decks[e] # InitDecks[e]

\* an event on a channel no deck is mapped to called no handler
UnmappedChannelCallsNothing ==
    (op.kind = "event" /\ op.event.device = "apc40"
       /\ DeckOfHuman("apc40", op.event.control.ch + 1) = "") => op.calls = <<>>

====
